---- MODULE Spec2Model ----
(***************************************************************************)
(* onchain-census-indexer: the checkpointed, ordered event store            *)
(* (internal/store) and the ingestion engine (internal/indexer) that        *)
(* commits block windows through it.                                        *)
(*                                                                          *)
(* The key-value engine is modelled by its contract only: Get, a write      *)
(* transaction whose Sets become visible together at Commit, and Iterate    *)
(* over the keys sharing a prefix in ascending byte order.  Keys are byte   *)
(* sequences built exactly as the store builds them.                        *)
(***************************************************************************)
EXTENDS Integers, Sequences, FiniteSets, TLC

VARIABLES
    db,            \* the key-value store: a function from keys (byte sequences) to values
    lastOp,        \* the store call made by the last step and what it returned (wrote: a
                   \* SaveContract changed the store, a SaveEvents that failed changed it)
    committedCp,   \* history: per target, the checkpoint of the last successful SaveEvents
    committedRows, \* history: per target, the events of all successful SaveEvents, by identity
    registeredAs,  \* history: per target, the startBlock of the first successful SaveContract
    pc,            \* where T1's engine is: "stopped", "poll" (between wake-ups), "drain" (in syncOnce's loop);
                   \* in StepSpec also "fetching", "saving", "committing" (inside one turn of the loop)
    lastBlock,     \* Run's lastBlock: the engine's cursor
    head,          \* the chain head syncOnce read at the start of the current wake-up
    cfgStartBlock, \* the engine's configured startBlock (Indexer.startBlock)
    batchSize,     \* the engine's batchSize
    runErr,        \* what Run returned when it stopped ("nil" while it has never stopped)
    resolved,      \* history: the checkpoint Run read when it last started
    window,        \* history: the last window Run tried, how many it tried, and how the last try ended
    emptyRange,    \* history: the first window committed without events, by any Run
    indexers,      \* Service.indexers: the keys of the orchestrator's registry
    engines,       \* per target, the engine goroutines launched for it, in launch order:
                   \* [status, err, cursor], status "running", "returned" (Run has
                   \* returned err, not yet forwarded) or "done" (goroutine ended)
    callers,       \* per goroutine running syncContracts: [pc, todo], pc "wait" (for
                   \* the next tick), "check", "build", "insert" (inside
                   \* ensureRegistered for Head(todo)) or "exited"
    errCh,         \* the orchestrator's error channel: the errors buffered in it
    ctxDone,       \* the root context is cancelled
    endpoints,     \* the chains the RPC pool has an endpoint for
    mainPc,        \* main: "serving" (first select), "leaving" (second select), "exited"
    handlers,      \* api.Service.handlers: key -> the handler published for it
    contracts,     \* api.Service.contracts: the published targets, in order of publication
    lastReq,       \* the HTTP request served by the last step: [method, path, body]
    lastResp,      \* its response: [code, servedBy, listing, created]
    saving         \* per request goroutine, where it is inside Store.SaveContract:
                   \* [pc, startBlock], pc "idle", "get" (before db.Get), "write"
                   \* (key not found, before the transaction), "returned", "failed"

storeVars == <<db, lastOp, committedCp, committedRows, registeredAs>>

engineVars ==
    <<pc, lastBlock, head, cfgStartBlock, batchSize, runErr, resolved, window, emptyRange>>

orchVars == <<indexers, engines, callers, errCh, ctxDone, endpoints, mainPc>>

apiVars == <<handlers, contracts, lastReq, lastResp, saving>>

serviceVars == <<orchVars, apiVars>>

vars == <<storeVars, engineVars, serviceVars>>

----------------------------------------------------------------------------
(* Bounds of the model *)

\* longest batch handed to one SaveEvents call by the store specifications
MaxBatch == 2
\* largest first/skip argument tried on ListEvents
MaxPage == 3
\* the largest value of the engine's unsigned block arithmetic, which wraps modulo
\* MaxUint64 + 1: the 64-bit domain scaled down, both ends kept
MaxUint64 == 7
\* capacity of the orchestrator's error channel (16 in Service.Start, scaled down)
ErrChCapacity == 2
\* the chain head and the batch size of the engines the orchestrator launches
ServiceHead == 2
ServiceBatchSize == 1

----------------------------------------------------------------------------
(* Bytes, addresses and hex strings *)

contractAddressBytes == 20

Min(a, b) == IF a < b THEN a ELSE b

Reverse(s) == [i \in 1..Len(s) |-> s[Len(s) + 1 - i]]

\* binary.BigEndian.PutUint64 / PutUint32: n in w bytes, most significant first
RECURSIVE BigEndian(_, _)
BigEndian(n, w) ==
    IF w = 0 THEN <<>> ELSE Append(BigEndian(n \div 256, w - 1), n % 256)

\* binary.BigEndian.Uint64: the number a byte sequence spells, most significant first
RECURSIVE BigEndianValue(_)
BigEndianValue(bytes) ==
    IF bytes = <<>> THEN 0
    ELSE BigEndianValue(SubSeq(bytes, 1, Len(bytes) - 1)) * 256 + bytes[Len(bytes)]

\* a 20-byte address whose bytes are all b (0x1111..., 0x2222... of the tests)
Address(b) == [i \in 1..contractAddressBytes |-> b]

ZeroAddress == Address(0)

\* common.Address.Hex: two hexadecimal digits per byte (digits as numbers 0..15)
Hex(addr) ==
    [i \in 1..(2 * contractAddressBytes) |->
        IF i % 2 = 1 THEN addr[(i + 1) \div 2] \div 16 ELSE addr[i \div 2] % 16]

\* common.IsHexAddress: exactly 40 hexadecimal digits
IsHexAddress(s) ==
    /\ Len(s) = 2 * contractAddressBytes
    /\ \A i \in 1..Len(s) : s[i] \in 0..15

\* common.HexToAddress on a valid hex string
HexToAddress(s) ==
    [i \in 1..contractAddressBytes |-> s[2 * i - 1] * 16 + s[2 * i]]

\* a string that is no hex address ("0xabc")
BadHex == <<10, 11, 12>>

----------------------------------------------------------------------------
(* Key layout *)

\* "evt:"
eventKeyPrefix == <<101, 118, 116, 58>>
\* "meta:last_block:"
lastBlockKeyPrefix ==
    <<109, 101, 116, 97, 58, 108, 97, 115, 116, 95, 98, 108, 111, 99, 107, 58>>
\* "meta:contract:"
contractKeyPrefix ==
    <<109, 101, 116, 97, 58, 99, 111, 110, 116, 114, 97, 99, 116, 58>>

\* n in w bytes, least significant first
LittleEndian(n, w) == Reverse(BigEndian(n, w))

\* the event key with the block number written least significant byte first
eventKeyLittleEndian(chainID, contract, blockNumber, logIndex) ==
    eventKeyPrefix \o BigEndian(chainID, 8) \o contract
        \o LittleEndian(blockNumber, 8) \o BigEndian(logIndex, 4)

eventKey(chainID, contract, blockNumber, logIndex) ==
    eventKeyPrefix \o BigEndian(chainID, 8) \o contract
        \o BigEndian(blockNumber, 8) \o BigEndian(logIndex, 4)

\* a scan prefix that stops after the chainID
eventPrefixChainOnly(chainID, contract) ==
    eventKeyPrefix \o BigEndian(chainID, 8)

eventPrefix(chainID, contract) ==
    eventKeyPrefix \o BigEndian(chainID, 8) \o contract

\* one checkpoint key for every target of a chain
lastBlockKeyPerChain(chainID, contract) ==
    lastBlockKeyPrefix \o BigEndian(chainID, 8)

lastBlockKey(chainID, contract) ==
    lastBlockKeyPrefix \o BigEndian(chainID, 8) \o contract

contractKey(chainID, contract) ==
    contractKeyPrefix \o BigEndian(chainID, 8) \o contract

encodeUint64(value) == BigEndian(value, 8)

\* [err, value]: fails unless the value is exactly 8 bytes long
decodeUint64(value) ==
    IF Len(value) # 8 THEN [err |-> "invalid uint64 length", value |-> 0]
    ELSE [err |-> "nil", value |-> BigEndianValue(value)]

----------------------------------------------------------------------------
(* The key-value engine's contract *)

\* bytes.Compare(a, b) < 0
BytesLess(a, b) ==
    \E i \in 1..(Min(Len(a), Len(b)) + 1) :
        /\ \A j \in 1..(i - 1) : a[j] = b[j]
        /\ IF i > Len(a) THEN i <= Len(b)
           ELSE i <= Len(b) /\ a[i] < b[i]

HasPrefix(key, prefix) ==
    /\ Len(key) >= Len(prefix)
    /\ SubSeq(key, 1, Len(prefix)) = prefix

RECURSIVE SortedKeys(_)
SortedKeys(keys) ==
    IF keys = {} THEN <<>>
    ELSE LET first == CHOOSE k \in keys : \A o \in keys \ {k} : BytesLess(k, o)
         IN  <<first>> \o SortedKeys(keys \ {first})

\* db.Iterate(prefix, callback): the keys with the prefix, in ascending byte order
Iterate(d, prefix) ==
    SortedKeys({k \in DOMAIN d : HasPrefix(k, prefix)})

\* db.Get: found tells db.ErrKeyNotFound apart
Get(d, key) ==
    IF key \in DOMAIN d THEN [found |-> TRUE, value |-> d[key]]
    ELSE [found |-> FALSE, value |-> <<>>]

\* db.WriteTx(): an empty write buffer
WriteTx == <<>>

\* tx.Set: buffered in the transaction, a later Set of the same key wins
TxSet(tx, key, value) == (key :> value) @@ tx

\* tx.Commit: every buffered write becomes visible at once
TxCommit(d, tx) == tx @@ d

----------------------------------------------------------------------------
(* Stored records *)

\* json.Marshal(Event): the fields in declaration order
MarshalEvent(e) ==
    <<e.ChainID, e.Contract, e.Account, e.PreviousWeight, e.NewWeight,
      e.BlockNumber, e.LogIndex>>

\* json.Unmarshal into an Event
UnmarshalEvent(p) ==
    [ChainID |-> p[1], Contract |-> p[2], Account |-> p[3],
     PreviousWeight |-> p[4], NewWeight |-> p[5],
     BlockNumber |-> p[6], LogIndex |-> p[7]]

\* json.Marshal(ContractRecord)
MarshalContract(r) == <<r.ChainID, r.Contract, r.StartBlock>>

\* json.Unmarshal into a ContractRecord
UnmarshalContract(p) ==
    [ChainID |-> p[1], Contract |-> p[2], StartBlock |-> p[3]]

----------------------------------------------------------------------------
(* Store.LastIndexedBlock *)

\* [err, ok, block]; cancelled is ctx.Err() # nil at the entry check
LastIndexedBlock(d, cancelled, chainID, contract) ==
    IF cancelled THEN [err |-> "ctx", ok |-> FALSE, block |-> 0]
    ELSE LET got == Get(d, lastBlockKey(chainID, contract)) IN
         IF ~got.found THEN [err |-> "nil", ok |-> FALSE, block |-> 0]
         ELSE LET dec == decodeUint64(got.value) IN
              IF dec.err # "nil"
              THEN [err |-> "decode last indexed block", ok |-> FALSE, block |-> 0]
              ELSE [err |-> "nil", ok |-> TRUE, block |-> dec.value]

----------------------------------------------------------------------------
(* Store.SaveEvents *)

\* What can go wrong inside one call, chosen by the environment:
\*   kind "ctx",  at = 0            the context is cancelled at the entry check
\*   kind "ctx",  at = i >= 1       it is cancelled when row i is reached
\*   kind "set",  at = i            the i-th tx.Set fails (Len(events)+1: the checkpoint)
\*   kind "commit"                  tx.Commit fails
NoFault == [kind |-> "none", at |-> 0]

Faults(n) ==
    {NoFault, [kind |-> "commit", at |-> 0]}
        \cup {[kind |-> "ctx", at |-> i] : i \in 0..n}
        \cup {[kind |-> "set", at |-> i] : i \in 1..(n + 1)}

\* the loop over the rows, from row i on: [err, tx]
RECURSIVE saveRows(_, _, _, _)
saveRows(tx, events, i, fault) ==
    IF i > Len(events) THEN [err |-> "nil", tx |-> tx]
    ELSE LET event == events[i] IN
         IF fault.kind = "ctx" /\ fault.at = i THEN [err |-> "ctx", tx |-> tx]
         ELSE IF event.ChainID = 0
              THEN [err |-> "event chainID is required", tx |-> tx]
         ELSE IF ~IsHexAddress(event.Contract)
              THEN [err |-> "event contract is invalid", tx |-> tx]
         ELSE IF fault.kind = "set" /\ fault.at = i
              THEN [err |-> "store event", tx |-> tx]
         ELSE saveRows(
                  TxSet(tx,
                        eventKey(event.ChainID, HexToAddress(event.Contract),
                                 event.BlockNumber, event.LogIndex),
                        MarshalEvent(event)),
                  events, i + 1, fault)

\* the same loop without the transaction: every row is written to the store as
\* it is reached, so the rows before a failure stay
RECURSIVE saveRowsWriteThrough(_, _, _, _)
saveRowsWriteThrough(d, events, i, fault) ==
    IF i > Len(events) THEN [err |-> "nil", db |-> d]
    ELSE LET event == events[i] IN
         IF fault.kind = "ctx" /\ fault.at = i THEN [err |-> "ctx", db |-> d]
         ELSE IF event.ChainID = 0
              THEN [err |-> "event chainID is required", db |-> d]
         ELSE IF ~IsHexAddress(event.Contract)
              THEN [err |-> "event contract is invalid", db |-> d]
         ELSE IF fault.kind = "set" /\ fault.at = i
              THEN [err |-> "store event", db |-> d]
         ELSE saveRowsWriteThrough(
                  TxSet(d,
                        eventKey(event.ChainID, HexToAddress(event.Contract),
                                 event.BlockNumber, event.LogIndex),
                        MarshalEvent(event)),
                  events, i + 1, fault)

SaveEventsWriteThrough(d, chainID, contract, events, lastIndexedBlock, fault) ==
    IF fault.kind = "ctx" /\ fault.at = 0
    THEN [err |-> "ctx", db |-> d, buffered |-> 0]
    ELSE IF chainID = 0
    THEN [err |-> "chainID is required", db |-> d, buffered |-> 0]
    ELSE IF contract = ZeroAddress
    THEN [err |-> "contract address is required", db |-> d, buffered |-> 0]
    ELSE LET rows == saveRowsWriteThrough(d, events, 1, fault)
             n == Cardinality(DOMAIN rows.db \ DOMAIN d) IN
         IF rows.err # "nil"
         THEN [err |-> rows.err, db |-> rows.db, buffered |-> n]
         ELSE IF fault.kind = "set" /\ fault.at = Len(events) + 1
         THEN [err |-> "store last indexed block", db |-> rows.db, buffered |-> n]
         ELSE IF fault.kind = "commit"
         THEN [err |-> "commit events", db |-> rows.db, buffered |-> n]
         ELSE [err |-> "nil",
               db |-> TxSet(rows.db, lastBlockKey(chainID, contract),
                            encodeUint64(lastIndexedBlock)),
               buffered |-> 0]

\* [err, db, buffered]: db is the store after the call; buffered is the number of
\* writes the transaction held when the call returned an error (the deferred
\* tx.Discard drops them)
SaveEvents(d, chainID, contract, events, lastIndexedBlock, fault) ==
    IF fault.kind = "ctx" /\ fault.at = 0
    THEN [err |-> "ctx", db |-> d, buffered |-> 0]
    ELSE IF chainID = 0
    THEN [err |-> "chainID is required", db |-> d, buffered |-> 0]
    ELSE IF contract = ZeroAddress
    THEN [err |-> "contract address is required", db |-> d, buffered |-> 0]
    ELSE LET rows == saveRows(WriteTx, events, 1, fault)
             n == Cardinality(DOMAIN rows.tx) IN
         IF rows.err # "nil"
         THEN [err |-> rows.err, db |-> d, buffered |-> n]
         ELSE IF fault.kind = "set" /\ fault.at = Len(events) + 1
         THEN [err |-> "store last indexed block", db |-> d, buffered |-> n]
         ELSE IF fault.kind = "commit"
         THEN [err |-> "commit events", db |-> d, buffered |-> n]
         ELSE [err |-> "nil",
               db |-> TxCommit(d, TxSet(rows.tx, lastBlockKey(chainID, contract),
                                        encodeUint64(lastIndexedBlock))),
               buffered |-> 0]

----------------------------------------------------------------------------
(* Store.SaveContract and Store.ListContracts *)

\* kinds of failure inside SaveContract: the context at the entry check, a
\* failing db.Get (other than not-found), a failing tx.Set, a failing tx.Commit
ContractFaults == {"none", "ctx", "get", "set", "commit"}

\* a registration that replaces the stored record instead of keeping it
SaveContractOverwrite(d, chainID, contract, startBlock, fault) ==
    IF fault = "ctx" THEN [err |-> "ctx", db |-> d]
    ELSE IF chainID = 0 THEN [err |-> "chainID is required", db |-> d]
    ELSE IF contract = ZeroAddress
    THEN [err |-> "contract address is required", db |-> d]
    ELSE LET key == contractKey(chainID, contract)
             record == [ChainID |-> chainID, Contract |-> Hex(contract),
                        StartBlock |-> startBlock] IN
         IF fault = "get" THEN [err |-> "check contract", db |-> d]
         ELSE IF fault = "set" THEN [err |-> "store contract", db |-> d]
         ELSE IF fault = "commit" THEN [err |-> "commit contract", db |-> d]
         ELSE [err |-> "nil",
               db |-> TxCommit(d, TxSet(WriteTx, key, MarshalContract(record)))]

\* [err, db]
SaveContract(d, chainID, contract, startBlock, fault) ==
    IF fault = "ctx" THEN [err |-> "ctx", db |-> d]
    ELSE IF chainID = 0 THEN [err |-> "chainID is required", db |-> d]
    ELSE IF contract = ZeroAddress
    THEN [err |-> "contract address is required", db |-> d]
    ELSE LET key == contractKey(chainID, contract)
             record == [ChainID |-> chainID, Contract |-> Hex(contract),
                        StartBlock |-> startBlock] IN
         IF fault # "get" /\ Get(d, key).found THEN [err |-> "nil", db |-> d]
         ELSE IF fault = "get" THEN [err |-> "check contract", db |-> d]
         ELSE IF fault = "set" THEN [err |-> "store contract", db |-> d]
         ELSE IF fault = "commit" THEN [err |-> "commit contract", db |-> d]
         ELSE [err |-> "nil",
               db |-> TxCommit(d, TxSet(WriteTx, key, MarshalContract(record)))]

\* [err, records]: every registration record, in key order
ListContracts(d, cancelled) ==
    IF cancelled THEN [err |-> "ctx", records |-> <<>>]
    ELSE LET keys == Iterate(d, contractKeyPrefix) IN
         [err |-> "nil",
          records |-> [i \in 1..Len(keys) |-> UnmarshalContract(d[keys[i]])]]

----------------------------------------------------------------------------
(* Store.ListEvents *)

\* the callback of listEventsAsc applied to the keys from position i on;
\* st = [results, skipped]
RECURSIVE ascVisit(_, _, _, _, _)
ascVisit(d, keys, i, opts, st) ==
    IF i > Len(keys) THEN st.results
    ELSE IF st.skipped < opts.Skip
    THEN ascVisit(d, keys, i + 1, opts, [st EXCEPT !.skipped = @ + 1])
    ELSE IF opts.First > 0 /\ Len(st.results) >= opts.First
    THEN st.results
    ELSE ascVisit(d, keys, i + 1, opts,
                  [st EXCEPT !.results = Append(@, UnmarshalEvent(d[keys[i]]))])

\* the same scan with the limit tested one row late
listEventsAscOffByOne(d, opts, prefix) ==
    ascVisit(d, Iterate(d, prefix), 1,
             [opts EXCEPT !.First = IF @ > 0 THEN @ + 1 ELSE @],
             [results |-> <<>>, skipped |-> 0])

listEventsAsc(d, opts, prefix) ==
    ascVisit(d, Iterate(d, prefix), 1, opts, [results |-> <<>>, skipped |-> 0])

\* a descending scan that takes its page from the ascending scan and reverses
\* the page
listEventsDescPageFirst(d, opts, prefix) == Reverse(listEventsAsc(d, opts, prefix))

\* the whole range collected in ascending order, reversed, then cut to the page
listEventsDesc(d, opts, prefix) ==
    LET keys == Iterate(d, prefix)
        all == Reverse([i \in 1..Len(keys) |-> UnmarshalEvent(d[keys[i]])])
        start == opts.Skip
        end == IF opts.First > 0 /\ start + opts.First < Len(all)
               THEN start + opts.First ELSE Len(all)
    IN  IF start > Len(all) THEN <<>> ELSE SubSeq(all, start + 1, end)

\* a scan that takes its arguments as they come: an ascending scan unless the
\* direction is "desc"
ListEventsUnchecked(d, cancelled, opts) ==
    IF cancelled THEN [err |-> "ctx", events |-> <<>>]
    ELSE LET scoped == opts.ChainID # 0 \/ opts.Contract # ZeroAddress
             prefix == IF scoped THEN eventPrefix(opts.ChainID, opts.Contract)
                       ELSE eventKeyPrefix
         IN  IF opts.OrderDirection = "desc"
             THEN [err |-> "nil", events |-> listEventsDesc(d, opts, prefix)]
             ELSE [err |-> "nil", events |-> listEventsAsc(d, opts, prefix)]

\* [err, events]; cancelled is ctx.Err() # nil at any of the checks
ListEvents(d, cancelled, opts) ==
    IF cancelled THEN [err |-> "ctx", events |-> <<>>]
    ELSE IF opts.First < 0 \/ opts.Skip < 0
    THEN [err |-> "first and skip must be non-negative", events |-> <<>>]
    ELSE LET orderBy == IF opts.OrderBy = "" THEN "blockNumber" ELSE opts.OrderBy
             orderDirection ==
                 IF opts.OrderDirection = "" THEN "asc" ELSE opts.OrderDirection
             scoped == opts.ChainID # 0 \/ opts.Contract # ZeroAddress
             prefix == IF scoped THEN eventPrefix(opts.ChainID, opts.Contract)
                       ELSE eventKeyPrefix
         IN  IF orderBy # "blockNumber"
             THEN [err |-> "unsupported orderBy", events |-> <<>>]
             ELSE IF scoped /\ (opts.ChainID = 0 \/ opts.Contract = ZeroAddress)
             THEN [err |-> "both chainID and contract are required for filtering",
                   events |-> <<>>]
             ELSE IF orderDirection = "desc"
             THEN [err |-> "nil", events |-> listEventsDesc(d, opts, prefix)]
             ELSE IF orderDirection # "asc"
             THEN [err |-> "unsupported orderDirection", events |-> <<>>]
             ELSE [err |-> "nil", events |-> listEventsAsc(d, opts, prefix)]

----------------------------------------------------------------------------
(* The targets and the rows the store specifications commit *)

T1 == [chainID |-> 1, contract |-> Address(17)]
T2 == [chainID |-> 1, contract |-> Address(34)]
T3 == [chainID |-> 2, contract |-> Address(17)]

\* two targets on one chain and one target on another chain
Targets == {T1, T2, T3}

\* the event a target's engine builds for a log (fetchEvents stamps the engine's
\* own chainID and contract on every row)
EventOf(t, blockNumber, logIndex) ==
    [ChainID |-> t.chainID, Contract |-> Hex(t.contract), Account |-> "0xabc",
     PreviousWeight |-> "1", NewWeight |-> "2",
     BlockNumber |-> blockNumber, LogIndex |-> logIndex]

\* (blockNumber, logIndex) of the rows committed per target: T1 has block numbers
\* on both sides of a byte boundary, T2 and T3 share an identity with T1
RowIds(t) == IF t = T1 THEN {<<1, 1>>, <<2, 0>>, <<256, 0>>} ELSE {<<1, 1>>}

ValidRows(t) == {EventOf(t, id[1], id[2]) : id \in RowIds(t)}

\* rows SaveEvents refuses: no chainID, or a contract that is no hex address
InvalidRows(t) ==
    {[EventOf(t, 1, 0) EXCEPT !.ChainID = 0],
     [EventOf(t, 1, 0) EXCEPT !.Contract = BadHex]}

\* every batch of at most MaxBatch of the rows, in every order
BatchesOf(rows) == UNION {[1..n -> rows] : n \in 0..MaxBatch}

\* checkpoint values passed to SaveEvents
StoreCheckpoints == {3, 300}
\* startBlock values passed to SaveContract
StoreStartBlocks == {0, 10, 99}

----------------------------------------------------------------------------
(* History of the successful calls *)

NoCheckpoint == [ok |-> FALSE, block |-> 0]

NoRegistration == [ok |-> FALSE, startBlock |-> 0]

\* the rows of a batch by identity (blockNumber, logIndex), a later row winning
RECURSIVE RowsById(_, _)
RowsById(rows, events) ==
    IF events = <<>> THEN rows
    ELSE LET e == Head(events)
             id == <<e.BlockNumber, e.LogIndex>> IN
         RowsById((id :> e) @@ [x \in DOMAIN rows \ {id} |-> rows[x]], Tail(events))

----------------------------------------------------------------------------
(* Store calls as steps *)

EngineStopped ==
    /\ pc = "stopped"
    /\ lastBlock = 0
    /\ head = 0
    /\ cfgStartBlock = 0
    /\ batchSize = 1
    /\ runErr = "nil"
    /\ resolved = NoCheckpoint
    /\ window = [n |-> 0, from |-> 0, to |-> 0, outcome |-> "none"]
    /\ emptyRange = [ok |-> FALSE, from |-> 0, to |-> 0]

\* NewService, before Start: no engine, an empty registry, an empty channel
ServiceIdle ==
    /\ indexers = {}
    /\ engines = [t \in Targets |-> <<>>]
    /\ callers = [c \in {1, 2} |-> [pc |-> "wait", todo |-> <<>>]]
    /\ errCh = <<>>
    /\ ctxDone = FALSE
    /\ endpoints = {}
    /\ mainPc = "serving"

\* a request body: the JSON object's members (an absent string is empty)
NoBody == [malformed |-> FALSE, chainId |-> 0, address |-> <<>>, contract |-> <<>>,
           startBlock |-> 0]

NoHandler == [chainID |-> 0, contract |-> ZeroAddress, id |-> 0]

NoCreated == [chainId |-> 0, contract |-> <<>>, endpoint |-> <<>>]

\* lastReq and lastResp when the last step served no request
NoRequest == [method |-> "none", route |-> "none", path |-> <<>>, body |-> NoBody]

NoResponse == [code |-> 0, servedBy |-> NoHandler, listing |-> <<>>, created |-> NoCreated]

\* api.New: nothing published, nothing served
ApiIdle ==
    /\ handlers = <<>>
    /\ contracts = <<>>
    /\ lastReq = NoRequest
    /\ lastResp = NoResponse
    /\ saving = [g \in {1, 2} |-> [pc |-> "idle", startBlock |-> 0]]

StoreInit ==
    /\ EngineStopped
    /\ ServiceIdle
    /\ ApiIdle
    /\ db = <<>>
    /\ lastOp = [op |-> "none", target |-> T1, err |-> "nil", buffered |-> 0,
                 fault |-> "none", startBlock |-> 0, wrote |-> FALSE]
    /\ committedCp = [t \in Targets |-> NoCheckpoint]
    /\ committedRows = [t \in Targets |-> <<>>]
    /\ registeredAs = [t \in Targets |-> NoRegistration]

\* one SaveEvents call for target t and what it leaves behind
CallSaveEvents(t, events, cp, fault) ==
    LET r == SaveEvents(db, t.chainID, t.contract, events, cp, fault) IN
    /\ db' = r.db
    /\ lastOp' = [op |-> "SaveEvents", target |-> t, err |-> r.err,
                  buffered |-> r.buffered, fault |-> fault.kind, startBlock |-> 0,
                  wrote |-> (r.err # "nil" /\ r.db # db)]
    /\ IF r.err = "nil"
       THEN /\ committedCp' = [committedCp EXCEPT ![t] = [ok |-> TRUE, block |-> cp]]
            /\ committedRows' = [committedRows EXCEPT ![t] = RowsById(@, events)]
       ELSE UNCHANGED <<committedCp, committedRows>>
    /\ UNCHANGED registeredAs

\* one SaveContract call for target t
CallSaveContract(t, s, fault) ==
    LET r == SaveContract(db, t.chainID, t.contract, s, fault) IN
    /\ db' = r.db
    /\ lastOp' = [op |-> "SaveContract", target |-> t, err |-> r.err,
                  buffered |-> 0, fault |-> fault, startBlock |-> s,
                  wrote |-> r.db # db]
    /\ IF r.err = "nil" /\ ~registeredAs[t].ok
       THEN registeredAs' =
                [registeredAs EXCEPT ![t] = [ok |-> TRUE, startBlock |-> s]]
       ELSE UNCHANGED registeredAs
    /\ UNCHANGED <<committedCp, committedRows>>

----------------------------------------------------------------------------
(* CommitSpec: every sequence of successful SaveEvents calls on three targets *)

Commit ==
    \E t \in Targets, cp \in StoreCheckpoints :
    \E events \in BatchesOf(ValidRows(t)) :
        /\ CallSaveEvents(t, events, cp, NoFault)
        /\ UNCHANGED <<engineVars, serviceVars>>

CommitNext == Commit

CommitSpec == StoreInit /\ [][CommitNext]_vars

----------------------------------------------------------------------------
(* FaultSpec: SaveEvents calls on T1 that succeed or fail at any point *)

FaultRows == {EventOf(T1, 1, 1), EventOf(T1, 256, 0)} \cup InvalidRows(T1)

CommitOrFail ==
    \E cp \in StoreCheckpoints :
    \E events \in BatchesOf(FaultRows) :
    \E fault \in Faults(Len(events)) :
        /\ CallSaveEvents(T1, events, cp, fault)
        /\ UNCHANGED <<engineVars, serviceVars>>

FaultNext == CommitOrFail

FaultSpec == StoreInit /\ [][FaultNext]_vars

----------------------------------------------------------------------------
(* RegSpec: every sequence of SaveContract calls on three targets *)

Register ==
    \E t \in Targets, s \in StoreStartBlocks, fault \in ContractFaults :
        /\ CallSaveContract(t, s, fault)
        /\ UNCHANGED <<engineVars, serviceVars>>

RegNext == Register

RegSpec == StoreInit /\ [][RegNext]_vars

----------------------------------------------------------------------------
(* What a reader of the store sees *)

ListOptions(t, first, skip, orderDirection) ==
    [First |-> first, Skip |-> skip, OrderBy |-> "blockNumber",
     OrderDirection |-> orderDirection, ChainID |-> t.chainID, Contract |-> t.contract]

\* the target's rows through an unbounded ascending scan, and its checkpoint
Visible(d, t) ==
    LET cp == LastIndexedBlock(d, FALSE, t.chainID, t.contract) IN
    [rows |-> ListEvents(d, FALSE, ListOptions(t, 0, 0, "asc")),
     checkpoint |-> [ok |-> cp.ok, block |-> cp.block],
     checkpointErr |-> cp.err]

\* every row of every target, through the unscoped scan
AllRows(d) ==
    ListEvents(d, FALSE, [First |-> 0, Skip |-> 0, OrderBy |-> "",
                          OrderDirection |-> "", ChainID |-> 0,
                          Contract |-> ZeroAddress]).events

\* e1 is earlier than e2 in chain order
Before(e1, e2) ==
    \/ e1.BlockNumber < e2.BlockNumber
    \/ e1.BlockNumber = e2.BlockNumber /\ e1.LogIndex < e2.LogIndex

\* the events of a set in chain order
RECURSIVE InChainOrder(_)
InChainOrder(events) ==
    IF events = {} THEN <<>>
    ELSE LET first == CHOOSE e \in events : \A o \in events \ {e} : Before(e, o)
         IN  <<first>> \o InChainOrder(events \ {first})

\* the events of a history of committed rows, in chain order
RowsInOrder(rows) == InChainOrder({rows[id] : id \in DOMAIN rows})

\* the events successfully committed for a target, in chain order
CommittedInOrder(t) == RowsInOrder(committedRows[t])

\* the elements of s at positions [skip, skip + first), counted from 0
Window(s, skip, first) == SubSeq(s, skip + 1, Min(skip + first, Len(s)))

\* the elements of s from position skip on, counted from 0
From(s, skip) == SubSeq(s, skip + 1, Len(s))

----------------------------------------------------------------------------
(* The ingestion engine of one target (Indexer.Run, syncOnce, fetchEvents) *)

\* unsigned arithmetic of the engine's block numbers
U64(n) == n % (MaxUint64 + 1)

\* the logs of T1's contract on the chain, as (blockNumber, logIndex)
ChainLogs == {<<2, 0>>, <<2, 1>>}

\* heads the chain-data collaborator may report, in any order from one query to
\* the next
Heads == {0, 3, 6, MaxUint64}

\* configured start blocks and batch sizes of the engine
StartBlocks == {0, 1, 3}

BatchSizes == {1, 3, MaxUint64}

\* the cursor Run starts from, given the checkpoint it read
RunLastBlock(cp, s) ==
    IF ~cp.ok
    THEN IF s > 0 THEN s - 1 ELSE cp.block
    ELSE IF s > 0 /\ U64(cp.block + 1) < s THEN s - 1 ELSE cp.block

\* the window syncOnce computes from the cursor
SyncWindow(cursor, size, h) ==
    LET from == U64(cursor + 1)
        to == U64(from + size - 1) IN
    [from |-> from, to |-> IF to > h THEN h ELSE to]

\* the events fetchEvents returns for [from, to]: the contract's logs in the range,
\* stamped with the engine's identity and sorted by (blockNumber, logIndex)
fetchEvents(t, from, to) ==
    InChainOrder({EventOf(t, l[1], l[2]) :
                      l \in {x \in ChainLogs : from <= x[1] /\ x[1] <= to}})

NoWindow == [n |-> 0, from |-> 0, to |-> 0, outcome |-> "none"]

\* the errors syncOnce returns, and whether they wrap errRetryable
ErrFetchHead == [msg |-> "fetch head block", retryable |-> TRUE]

ErrFilterLogs == [msg |-> "filter logs", retryable |-> TRUE]

ErrLogIndex == [msg |-> "log index overflows uint32", retryable |-> FALSE]

ErrMissingTopic == [msg |-> "log missing indexed account topic", retryable |-> FALSE]

ErrStoreEvents == [msg |-> "store events", retryable |-> FALSE]

\* every error is fatal to Run
NeverRetryable(err) == FALSE

\* no error is fatal to Run
AlwaysRetryable(err) == TRUE

\* errors.Is(err, errRetryable)
IsRetryable(err) == err.retryable

\* Run has returned err: its locals are gone; w is what is known of its last window
RunReturns(err, w) ==
    /\ pc' = "stopped"
    /\ runErr' = err
    /\ lastBlock' = 0
    /\ head' = 0
    /\ resolved' = NoCheckpoint
    /\ window' = w

\* Run on an error of syncOnce: log it and wait for the next wake-up when it is
\* retryable, return it otherwise
SyncFails(err, w) ==
    IF IsRetryable(err)
    THEN /\ pc' = "poll"
         /\ head' = 0
         /\ window' = w
         /\ UNCHANGED <<lastBlock, runErr, resolved>>
    ELSE RunReturns(err.msg, w)

\* New and the start of Run, for an engine configured with one of the start
\* blocks and one of the batch sizes: read the checkpoint and resolve the cursor
RunStartWith(starts, sizes) ==
    /\ pc = "stopped"
    /\ \E s \in starts, size \in sizes, cancelled \in BOOLEAN :
          LET cp == LastIndexedBlock(db, cancelled, T1.chainID, T1.contract) IN
          /\ cfgStartBlock' = s
          /\ batchSize' = size
          /\ IF cp.err # "nil"
             THEN RunReturns(cp.err, NoWindow)
             ELSE /\ pc' = "poll"
                  /\ runErr' = "nil"
                  /\ lastBlock' = RunLastBlock(cp, s)
                  /\ head' = 0
                  /\ resolved' = [ok |-> cp.ok, block |-> cp.block]
                  /\ window' = NoWindow
    /\ UNCHANGED <<storeVars, emptyRange, serviceVars>>

RunStart == RunStartWith(StartBlocks, BatchSizes)

\* syncOnce up to its loop: the head query succeeds
PollHead ==
    /\ pc = "poll"
    /\ \E h \in Heads :
          IF lastBlock >= h
          THEN UNCHANGED <<pc, head>>
          ELSE pc' = "drain" /\ head' = h
    /\ UNCHANGED <<storeVars, lastBlock, cfgStartBlock, batchSize, runErr, resolved, window,
                   emptyRange, serviceVars>>

\* the head query fails
PollHeadFails ==
    /\ pc = "poll"
    /\ SyncFails(ErrFetchHead, [window EXCEPT !.outcome = ErrFetchHead.msg])
    /\ UNCHANGED <<storeVars, cfgStartBlock, batchSize, emptyRange, serviceVars>>

\* one turn of syncOnce's loop: compute the window, fetch it, commit it; with
\* record set, the first window committed without events is kept in emptyRange
SyncTurn(record) ==
    /\ pc = "drain"
    /\ LET w == SyncWindow(lastBlock, batchSize, head)
           tried(outcome) == [n |-> Min(window.n + 1, 2), from |-> w.from,
                              to |-> w.to, outcome |-> outcome] IN
       \/ \E err \in {ErrFilterLogs, ErrLogIndex, ErrMissingTopic} :
             /\ SyncFails(err, tried(err.msg))
             /\ UNCHANGED <<storeVars, emptyRange>>
       \/ \E fault \in {NoFault, [kind |-> "commit", at |-> 0]},
             events \in {fetchEvents(T1, w.from, w.to)} :
             /\ CallSaveEvents(T1, events, w.to, fault)
             /\ IF lastOp'.err # "nil"
                THEN /\ SyncFails(ErrStoreEvents, tried(ErrStoreEvents.msg))
                     /\ UNCHANGED emptyRange
                ELSE /\ lastBlock' = w.to
                     /\ emptyRange' =
                           IF /\ record /\ ~emptyRange.ok
                              /\ w.from <= w.to /\ fetchEvents(T1, w.from, w.to) = <<>>
                           THEN [ok |-> TRUE, from |-> w.from, to |-> w.to]
                           ELSE emptyRange
                     /\ pc' = IF w.to < head THEN "drain" ELSE "poll"
                     /\ head' = IF w.to < head THEN head ELSE 0
                     /\ window' = tried("committed")
                     /\ UNCHANGED <<runErr, resolved>>
    /\ UNCHANGED <<cfgStartBlock, batchSize, serviceVars>>

\* the context is cancelled: Run returns at its next check
Cancel ==
    /\ pc \in {"poll", "drain"}
    /\ RunReturns("context canceled", NoWindow)
    /\ UNCHANGED <<storeVars, cfgStartBlock, batchSize, emptyRange, serviceVars>>

FetchAndCommit == SyncTurn(FALSE)

Next == RunStart \/ PollHead \/ PollHeadFails \/ FetchAndCommit \/ Cancel

Spec == StoreInit /\ [][Next]_vars

\* the same engine, with the history of empty windows kept
FetchAndCommitRecorded == SyncTurn(TRUE)

HistoryNext == RunStart \/ PollHead \/ PollHeadFails \/ FetchAndCommitRecorded \/ Cancel

HistorySpec == StoreInit /\ [][HistoryNext]_vars

\* the engine when no fetch and no commit fails and the context is never
\* cancelled: a turn of the loop that commits its window
CommitTurn == FetchAndCommit /\ window'.outcome = "committed"

\* batch sizes of the engines of DrainLiveSpec: one that divides the number of
\* block numbers, besides those of BatchSizes
DrainBatchSizes == {1, 2, 3}

DrainStart == RunStartWith(StartBlocks, DrainBatchSizes)

DrainNext == DrainStart \/ PollHead \/ CommitTurn

\* nothing in syncOnce's loop waits: a turn that can be taken is taken
DrainLiveSpec == StoreInit /\ [][DrainNext]_vars /\ WF_vars(CommitTurn)

----------------------------------------------------------------------------
(* The orchestrator (indexer.Service): discovery of registration records,   *)
(* admission of one engine per target, the error channel                    *)

\* the goroutines that call syncContracts: the discovery loop Start launches, and
\* a second one handed the same channel, so that ensureRegistered calls overlap
Callers == {1, 2}

\* the targets with a registration record
ServiceTargets == {T1}

\* contractKey of service.go: "%d:%s" of the chainID and the address in lower-case
\* hex (digits are kept as numbers, so the case is gone)
indexerKey(chainID, addr) == <<chainID, Hex(addr)>>

\* the ContractInfo syncContracts builds from a record
ContractInfoOf(record) ==
    [ChainID |-> record.ChainID, Address |-> HexToAddress(record.Contract),
     StartBlock |-> record.StartBlock]

\* a forward that waits for room in the channel
sendErrBlocking(ch, err) ==
    IF err = "nil" THEN [ch |-> ch, blocks |-> FALSE, full |-> FALSE]
    ELSE IF Len(ch) < ErrChCapacity
    THEN [ch |-> Append(ch, err), blocks |-> FALSE, full |-> FALSE]
    ELSE [ch |-> ch, blocks |-> TRUE, full |-> TRUE]

\* sendErr: nothing for nil; else the select with a default case: [ch, blocks, full]
sendErr(ch, err) ==
    IF err = "nil" THEN [ch |-> ch, blocks |-> FALSE, full |-> FALSE]
    ELSE IF Len(ch) < ErrChCapacity
    THEN [ch |-> Append(ch, err), blocks |-> FALSE, full |-> FALSE]
    ELSE [ch |-> ch, blocks |-> FALSE, full |-> TRUE]

\* a sendErr call as part of a step: enabled unless the send blocks
CallSendErr(err) ==
    LET r == sendErr(errCh, err) IN
    /\ ~r.blocks
    /\ errCh' = r.ch

\* an admission that never looks at the registry again before inserting
existsNever(registry, key) == FALSE

\* a first look that always finds the target registered
existsAlways(registry, key) == TRUE

\* _, exists := s.indexers[key], under the mutex
exists(registry, key) == key \in registry

\* the same look, the second time, under the mutex again
existsAtInsert(registry, key) == key \in registry

\* the caller goes on to the next record of its pass, or waits for the next tick
Advance(c) ==
    LET rest == Tail(callers[c].todo) IN
    callers' = [callers EXCEPT ![c] =
                   [pc |-> IF rest = <<>> THEN "wait" ELSE "check", todo |-> rest]]

\* syncContracts, up to its loop: list the records, keep those with a hex address
SyncContracts(c) ==
    /\ callers[c].pc = "wait"
    /\ LET r == ListContracts(db, ctxDone) IN
       IF r.err # "nil"
       THEN /\ CallSendErr("list contracts")
            /\ UNCHANGED callers
       ELSE LET todo == SelectSeq(r.records, LAMBDA rec : IsHexAddress(rec.Contract)) IN
            /\ callers' = [callers EXCEPT ![c] =
                   [pc |-> IF todo = <<>> THEN "wait" ELSE "check", todo |-> todo]]
            /\ UNCHANGED errCh
    /\ UNCHANGED <<storeVars, engineVars, apiVars, indexers, engines, ctxDone, endpoints, mainPc>>

\* run's select takes ctx.Done()
RunExits(c) ==
    /\ callers[c].pc = "wait"
    /\ ctxDone
    /\ callers' = [callers EXCEPT ![c] = [pc |-> "exited", todo |-> <<>>]]
    /\ UNCHANGED <<storeVars, engineVars, apiVars, indexers, engines, errCh, ctxDone, endpoints,
                   mainPc>>

\* ensureRegistered, up to the first unlock: the argument checks and the first
\* look at the registry
CheckRegistered(c) ==
    /\ callers[c].pc = "check"
    /\ LET cfg == ContractInfoOf(Head(callers[c].todo)) IN
       IF cfg.ChainID = 0
       THEN CallSendErr("chainID is required") /\ Advance(c)
       ELSE IF cfg.Address = ZeroAddress
       THEN CallSendErr("contract is required") /\ Advance(c)
       ELSE IF exists(indexers, indexerKey(cfg.ChainID, cfg.Address))
       THEN Advance(c) /\ UNCHANGED errCh
       ELSE /\ callers' = [callers EXCEPT ![c].pc = "build"]
            /\ UNCHANGED errCh
    /\ UNCHANGED <<storeVars, engineVars, apiVars, indexers, engines, ctxDone, endpoints, mainPc>>

\* an admission that, failing for lack of an endpoint, leaves the target's key in
\* the registry
BuildIndexerKeepsKey(c) ==
    /\ callers[c].pc = "build"
    /\ LET cfg == ContractInfoOf(Head(callers[c].todo)) IN
       \/ /\ cfg.ChainID \notin endpoints
          /\ CallSendErr("no RPC endpoints")
          /\ Advance(c)
          /\ indexers' = indexers \cup {indexerKey(cfg.ChainID, cfg.Address)}
          /\ UNCHANGED endpoints
       \/ /\ endpoints' = endpoints \cup {cfg.ChainID}
          /\ callers' = [callers EXCEPT ![c].pc = "insert"]
          /\ UNCHANGED <<errCh, indexers>>
    /\ UNCHANGED <<storeVars, engineVars, apiVars, engines, ctxDone, mainPc>>

\* ensureRegistered outside the mutex: ensureEndpoints, pool.Client and New.  With
\* an endpoint for the chain, Client and New succeed; without one ensureEndpoints
\* fails (autoRPC off, or the chainlist fetch fails) or fetches endpoints
BuildIndexer(c) ==
    /\ callers[c].pc = "build"
    /\ LET cfg == ContractInfoOf(Head(callers[c].todo)) IN
       \/ /\ cfg.ChainID \notin endpoints
          /\ CallSendErr("no RPC endpoints")
          /\ Advance(c)
          /\ UNCHANGED endpoints
       \/ /\ endpoints' = endpoints \cup {cfg.ChainID}
          /\ callers' = [callers EXCEPT ![c].pc = "insert"]
          /\ UNCHANGED errCh
    /\ UNCHANGED <<storeVars, engineVars, apiVars, indexers, engines, ctxDone, mainPc>>

\* ensureRegistered from the second lock on: look again, insert, launch the
\* goroutine that calls Run, whose cursor starts where Run resolves it
InsertAndLaunch(c) ==
    /\ callers[c].pc = "insert"
    /\ LET cfg == ContractInfoOf(Head(callers[c].todo))
           key == indexerKey(cfg.ChainID, cfg.Address)
           t == [chainID |-> cfg.ChainID, contract |-> cfg.Address]
           cp == LastIndexedBlock(db, FALSE, cfg.ChainID, cfg.Address) IN
       IF existsAtInsert(indexers, key)
       THEN UNCHANGED <<indexers, engines>>
       ELSE /\ indexers' = indexers \cup {key}
            /\ engines' = [engines EXCEPT ![t] =
                   Append(@, [status |-> "running", err |-> "nil",
                              cursor |-> RunLastBlock(cp, cfg.StartBlock)])]
    /\ Advance(c)
    /\ UNCHANGED <<storeVars, engineVars, apiVars, errCh, ctxDone, endpoints, mainPc>>

\* an engine whose Run has returned err: its cursor is gone
Returned(err) == [status |-> "returned", err |-> err, cursor |-> 0]

\* a running engine commits its next window
EngineCommits(t, i) ==
    /\ engines[t][i].status = "running"
    /\ engines[t][i].cursor < ServiceHead
    /\ LET w == SyncWindow(engines[t][i].cursor, ServiceBatchSize, ServiceHead) IN
       /\ CallSaveEvents(t, fetchEvents(t, w.from, w.to), w.to, NoFault)
       /\ engines' = [engines EXCEPT ![t][i].cursor = w.to]
    /\ UNCHANGED <<engineVars, apiVars, indexers, callers, errCh, ctxDone, endpoints, mainPc>>

\* a running engine's Run returns an error that is not retryable: a log that
\* cannot be decoded, a window whose commit fails, or a window whose SaveEvents
\* finds the context cancelled after syncOnce's own check has passed
EngineFails(t, i) ==
    /\ engines[t][i].status = "running"
    /\ engines[t][i].cursor < ServiceHead
    /\ LET w == SyncWindow(engines[t][i].cursor, ServiceBatchSize, ServiceHead) IN
       \/ /\ engines' = [engines EXCEPT ![t][i] = Returned(ErrLogIndex.msg)]
          /\ UNCHANGED storeVars
       \/ /\ CallSaveEvents(t, fetchEvents(t, w.from, w.to), w.to,
                            [kind |-> "commit", at |-> 0])
          /\ engines' = [engines EXCEPT ![t][i] = Returned(ErrStoreEvents.msg)]
       \/ /\ ctxDone
          /\ CallSaveEvents(t, fetchEvents(t, w.from, w.to), w.to,
                            [kind |-> "ctx", at |-> 0])
          /\ engines' = [engines EXCEPT ![t][i] = Returned(ErrStoreEvents.msg)]
    /\ UNCHANGED <<engineVars, apiVars, indexers, callers, errCh, ctxDone, endpoints, mainPc>>

\* a running engine's Run sees the cancelled context and returns
EngineCancelled(t, i) ==
    /\ engines[t][i].status = "running"
    /\ ctxDone
    /\ engines' = [engines EXCEPT ![t][i] = Returned("context canceled")]
    /\ UNCHANGED <<storeVars, engineVars, apiVars, indexers, callers, errCh, ctxDone, endpoints,
                   mainPc>>

\* an orchestrator that drops the registry entry of an engine that has ended
ForwardRunErrAndForget(t, i) ==
    /\ engines[t][i].status = "returned"
    /\ CallSendErr(engines[t][i].err)
    /\ engines' = [engines EXCEPT ![t][i].status = "done"]
    /\ indexers' = indexers \ {indexerKey(t.chainID, t.contract)}
    /\ UNCHANGED <<storeVars, engineVars, apiVars, callers, ctxDone, endpoints, mainPc>>

\* the engine goroutine hands Run's error to sendErr and ends
ForwardRunErr(t, i) ==
    /\ engines[t][i].status = "returned"
    /\ CallSendErr(engines[t][i].err)
    /\ engines' = [engines EXCEPT ![t][i].status = "done"]
    /\ UNCHANGED <<storeVars, engineVars, apiVars, indexers, callers, ctxDone, endpoints, mainPc>>

\* a registration record of one of the targets is persisted: main's seeding, or
\* POST /contracts
PersistRecordOf(targets) ==
    \E t \in targets :
        /\ CallSaveContract(t, 1, "none")
        /\ lastReq' = NoRequest /\ lastResp' = NoResponse
        /\ UNCHANGED <<engineVars, orchVars, handlers, contracts, saving>>

PersistRecord == PersistRecordOf(ServiceTargets)

\* the pool is given an endpoint for the chain (main, from the configuration)
AddEndpoint ==
    /\ endpoints = {}
    /\ endpoints' = {T1.chainID}
    /\ UNCHANGED <<storeVars, engineVars, apiVars, indexers, engines, callers, errCh, ctxDone,
                   mainPc>>

\* SIGINT or SIGTERM cancels the root context; main leaves its first select
Signal ==
    /\ mainPc = "serving"
    /\ ctxDone' = TRUE
    /\ mainPc' = "leaving"
    /\ UNCHANGED <<storeVars, engineVars, apiVars, indexers, engines, callers, errCh, endpoints>>

\* main's first select receives from the channel
MainReceives ==
    /\ mainPc = "serving"
    /\ errCh # <<>>
    /\ errCh' = Tail(errCh)
    /\ mainPc' = "leaving"
    /\ UNCHANGED <<storeVars, engineVars, apiVars, indexers, engines, callers, ctxDone, endpoints>>

\* main's second select takes one more error if there is one; main returns and
\* its deferred stop cancels the root context
MainLeaves ==
    /\ mainPc = "leaving"
    /\ errCh' = IF errCh = <<>> THEN errCh ELSE Tail(errCh)
    /\ mainPc' = "exited"
    /\ ctxDone' = TRUE
    /\ UNCHANGED <<storeVars, engineVars, apiVars, indexers, engines, callers, endpoints>>

OrchNext ==
    \/ PersistRecord
    \/ AddEndpoint
    \/ \E c \in Callers :
          \/ SyncContracts(c)
          \/ RunExits(c)
          \/ CheckRegistered(c)
          \/ BuildIndexer(c)
          \/ InsertAndLaunch(c)
    \/ \E t \in ServiceTargets : \E i \in DOMAIN engines[t] :
          \/ EngineCommits(t, i)
          \/ EngineFails(t, i)
          \/ EngineCancelled(t, i)
          \/ ForwardRunErr(t, i)
    \/ Signal
    \/ MainReceives
    \/ MainLeaves

OrchSpec == StoreInit /\ [][OrchNext]_vars

\* the orchestrator with two targets, T1 on a chain with a configured endpoint and
\* T3 on a chain without one, one discovery loop, and an operator who sends no
\* signal: the root context is cancelled by nothing but main's return
IndependentTargets == {T1, T3}

PersistIndependent == PersistRecordOf(IndependentTargets)

IndependenceNext ==
    \/ PersistIndependent
    \/ AddEndpoint
    \/ SyncContracts(1)
    \/ RunExits(1)
    \/ CheckRegistered(1)
    \/ BuildIndexer(1)
    \/ InsertAndLaunch(1)
    \/ \E t \in IndependentTargets : \E i \in DOMAIN engines[t] :
          \/ EngineCommits(t, i)
          \/ EngineFails(t, i)
          \/ EngineCancelled(t, i)
          \/ ForwardRunErr(t, i)
    \/ MainReceives
    \/ MainLeaves

IndependenceSpec == StoreInit /\ [][IndependenceNext]_vars

\* the discovery loop (caller 1) keeps ticking and a call it has begun goes on: run
\* takes every tick of its ticker and nothing in syncContracts or ensureRegistered
\* waits for anything but the mutex, which is held for a map access only
DiscoveryFairness ==
    /\ WF_vars(SyncContracts(1))
    /\ WF_vars(CheckRegistered(1))
    /\ WF_vars(BuildIndexer(1))
    /\ WF_vars(InsertAndLaunch(1))

OrchLiveSpec == StoreInit /\ [][OrchNext]_vars /\ DiscoveryFairness

\* Run looks at the context before every syncOnce, before every window and in the
\* select it sleeps in, and run's select has ctx.Done() among its cases: a
\* cancelled context is seen after finitely many steps
CancellationFairness ==
    /\ WF_vars(\E i \in DOMAIN engines[T1] : EngineCancelled(T1, i))
    /\ WF_vars(RunExits(1))

CancelLiveSpec ==
    StoreInit /\ [][OrchNext]_vars /\ DiscoveryFairness /\ CancellationFairness

----------------------------------------------------------------------------
(* The HTTP API (api.Service): publication of one handler per target,        *)
(* routing by path, POST /contracts                                          *)

\* Characters of request strings are numbers: 0..9 the digits, 10..15 the letters
\* a..f, 26..31 the letters A..F, 40 and above other letters.
ToLower(str) ==
    [i \in 1..Len(str) |-> IF str[i] \in 26..31 THEN str[i] - 16 ELSE str[i]]

\* the path segment "graphql"
GraphqlSegment == <<40, 41, 10, 42, 43, 44, 45>>

\* fmt's %d
RECURSIVE Decimal(_)
Decimal(n) == IF n < 10 THEN <<n>> ELSE Append(Decimal(n \div 10), n % 10)

\* the number a string of decimal digits spells
RECURSIVE DecimalValue(_)
DecimalValue(str) ==
    IF str = <<>> THEN 0
    ELSE DecimalValue(SubSeq(str, 1, Len(str) - 1)) * 10 + str[Len(str)]

\* strconv.ParseUint(str, 10, 64): [ok, value]; no digits, a character that is
\* no digit, or a value out of range is an error
ParseUint(str) ==
    IF str = <<>> \/ \E i \in 1..Len(str) : str[i] \notin 0..9
    THEN [ok |-> FALSE, value |-> 0]
    ELSE IF DecimalValue(str) > MaxUint64
    THEN [ok |-> FALSE, value |-> MaxUint64]
    ELSE [ok |-> TRUE, value |-> DecimalValue(str)]

\* a key that leaves the chain out
KeyOfAddressOnly(info) == <<0, ToLower(Hex(info.Address))>>

\* ContractInfo.Key: "%d:%s" of the chainID and the address in lower-case hex
Key(info) == <<info.ChainID, ToLower(Hex(info.Address))>>

\* "/%d/%s/graphql", as the segments of the path
Endpoint(chainID, addr) == <<Decimal(chainID), Hex(addr), GraphqlSegment>>

\* ContractInfo.UnmarshalJSON: [err, info]; the address is read from the member
\* "address", and any other member but chainId and startBlock is ignored
UnmarshalJSON(body) ==
    LET none == [ChainID |-> 0, Address |-> ZeroAddress, StartBlock |-> 0] IN
    IF body.malformed THEN [err |-> "syntax", info |-> none]
    ELSE IF body.chainId = 0 THEN [err |-> "chainId is required", info |-> none]
    ELSE IF ~IsHexAddress(ToLower(body.address))
    THEN [err |-> "invalid contract address", info |-> none]
    ELSE [err |-> "nil",
          info |-> [ChainID |-> body.chainId,
                    Address |-> HexToAddress(ToLower(body.address)),
                    StartBlock |-> body.startBlock]]

\* a publication that builds a new handler every time
RegisterContractAgain(hs, cs, chainID, contract) ==
    IF chainID = 0 THEN [err |-> "chainID is required", handlers |-> hs, contracts |-> cs]
    ELSE IF contract = ZeroAddress
    THEN [err |-> "contract is required", handlers |-> hs, contracts |-> cs]
    ELSE LET contractConf == [ChainID |-> chainID, Address |-> contract, StartBlock |-> 0]
             key == Key(contractConf)
             h == [chainID |-> chainID, contract |-> contract, id |-> Len(cs) + 1] IN
         [err |-> "nil",
          handlers |-> (key :> h) @@ [k \in DOMAIN hs \ {key} |-> hs[k]],
          contracts |-> Append(cs, contractConf)]

\* Service.RegisterContract on the handlers hs and the contracts cs:
\* [err, handlers, contracts].  A handler serves the schema of its chainID and
\* contract; id tells the handlers built for one key apart
RegisterContract(hs, cs, chainID, contract) ==
    IF chainID = 0 THEN [err |-> "chainID is required", handlers |-> hs, contracts |-> cs]
    ELSE IF contract = ZeroAddress
    THEN [err |-> "contract is required", handlers |-> hs, contracts |-> cs]
    ELSE LET contractConf == [ChainID |-> chainID, Address |-> contract, StartBlock |-> 0]
             key == Key(contractConf) IN
         IF key \in DOMAIN hs
         THEN [err |-> "nil", handlers |-> hs, contracts |-> cs]
         ELSE [err |-> "nil",
               handlers |-> (key :> [chainID |-> chainID, contract |-> contract,
                                     id |-> Len(cs) + 1]) @@ hs,
               contracts |-> Append(cs, contractConf)]

\* the order of sortedContracts: by ChainID, then by the lower-case hex address
ContractBefore(a, b) ==
    IF a.ChainID = b.ChainID
    THEN BytesLess(ToLower(Hex(a.Address)), ToLower(Hex(b.Address)))
    ELSE a.ChainID < b.ChainID

\* Service.sortedContracts: a sorted copy of the contracts
RECURSIVE sortedContracts(_)
sortedContracts(cs) ==
    IF cs = <<>> THEN <<>>
    ELSE LET rest == sortedContracts(Tail(cs))
             x == Head(cs)
             n == Cardinality({i \in 1..Len(rest) : ~ContractBefore(x, rest[i])}) IN
         SubSeq(rest, 1, n) \o <<x>> \o SubSeq(rest, n + 1, Len(rest))

NotFound == [code |-> 404, servedBy |-> NoHandler, listing |-> <<>>, created |-> NoCreated]

\* Service.handleRoot on the segments of the trimmed path (none for "/"): the
\* listing, "not found", or the response of the handler the path selects
handleRoot(hs, cs, parts) ==
    IF parts = <<>>
    THEN LET sorted == sortedContracts(cs) IN
         [code |-> 200, servedBy |-> NoHandler, created |-> NoCreated,
          listing |-> [i \in 1..Len(sorted) |->
                          [info |-> sorted[i],
                           endpoint |-> Endpoint(sorted[i].ChainID, sorted[i].Address)]]]
    ELSE IF Len(parts) # 3 \/ parts[3] # GraphqlSegment THEN NotFound
    ELSE LET chain == ParseUint(parts[1]) IN
         IF ~chain.ok \/ chain.value = 0 THEN NotFound
         ELSE LET contract == ToLower(parts[2]) IN
              IF ~IsHexAddress(contract) THEN NotFound
              ELSE LET key == <<chain.value, ToLower(Hex(HexToAddress(contract)))>> IN
                   IF key \notin DOMAIN hs THEN NotFound
                   ELSE [code |-> 200, servedBy |-> hs[key], listing |-> <<>>,
                         created |-> NoCreated]

\* the targets of the requests: the same contract address on two chains
ApiTargets == {T1, T3}

ApiStartBlocks == {1, 2}

\* the body with the address in the member "address", which UnmarshalJSON reads
AddressBody(t, s) ==
    [malformed |-> FALSE, chainId |-> t.chainID, address |-> Hex(t.contract),
     contract |-> <<>>, startBlock |-> s]

\* the body with the address in the member "contract"
ContractBody(t, s) ==
    [malformed |-> FALSE, chainId |-> t.chainID, address |-> <<>>,
     contract |-> Hex(t.contract), startBlock |-> s]

RequestBodies ==
    {AddressBody(t, s) : t \in ApiTargets, s \in ApiStartBlocks}
        \cup {ContractBody(t, 1) : t \in ApiTargets}
        \cup {[AddressBody(T1, 1) EXCEPT !.chainId = 0],
              [AddressBody(T1, 1) EXCEPT !.address = Hex(ZeroAddress)],
              [AddressBody(T1, 1) EXCEPT !.address = BadHex],
              [NoBody EXCEPT !.malformed = TRUE]}

\* forty characters, one of which is no hexadecimal digit
NotHex40 == [i \in 1..(2 * contractAddressBytes) |-> IF i = 1 THEN 40 ELSE 1]

\* paths that name no target: too few or too many segments, a last segment that
\* is not "graphql", chain 0, a chain that is no number or out of range, an
\* address that is no hex address, an empty segment
MalformedPaths ==
    {<<Decimal(1), Hex(T1.contract)>>,
     <<Decimal(1), Hex(T1.contract), GraphqlSegment, GraphqlSegment>>,
     <<Decimal(1), Hex(T1.contract), Tail(GraphqlSegment)>>,
     <<Decimal(0), Hex(T1.contract), GraphqlSegment>>,
     <<<<10>>, Hex(T1.contract), GraphqlSegment>>,
     <<Decimal(MaxUint64 + 1), Hex(T1.contract), GraphqlSegment>>,
     <<<<>>, Hex(T1.contract), GraphqlSegment>>,
     <<Decimal(1), BadHex, GraphqlSegment>>,
     <<Decimal(1), NotHex40, GraphqlSegment>>,
     <<GraphqlSegment>>}

\* the endpoints of the targets, of T2 (never published), and T1's with a leading
\* zero in the chain and with letters of the other case
RequestPaths ==
    {<<>>}
        \cup {Endpoint(t.chainID, t.contract) : t \in ApiTargets \cup {T2}}
        \cup {<<<<0, 1>>, Hex(T1.contract), GraphqlSegment>>,
              <<Decimal(1), [i \in 1..(2 * contractAddressBytes) |-> 26], GraphqlSegment>>}
        \cup MalformedPaths

\* Service.handleContracts with a method other than POST
ContractsNotPost ==
    /\ lastReq' = [method |-> "GET", route |-> "/contracts", path |-> <<>>,
                   body |-> NoBody]
    /\ lastResp' = [code |-> 405, servedBy |-> NoHandler, listing |-> <<>>,
                    created |-> NoCreated]
    /\ UNCHANGED <<storeVars, engineVars, orchVars, handlers, contracts, saving>>

\* Service.handleContracts, POST: decode, SaveContract, RegisterContract, respond
PostContracts ==
    \E body \in RequestBodies, fault \in {"none", "commit"} :
        LET req == UnmarshalJSON(body)
            info == req.info
            answer(code) == [code |-> code, servedBy |-> NoHandler, listing |-> <<>>,
                             created |-> NoCreated] IN
        /\ lastReq' = [method |-> "POST", route |-> "/contracts", path |-> <<>>,
                       body |-> body]
        /\ IF req.err # "nil"
           THEN /\ lastResp' = answer(400)
                /\ UNCHANGED <<storeVars, handlers, contracts>>
           ELSE /\ CallSaveContract([chainID |-> info.ChainID, contract |-> info.Address],
                                    info.StartBlock, fault)
                /\ IF lastOp'.err # "nil"
                   THEN /\ lastResp' = answer(500)
                        /\ UNCHANGED <<handlers, contracts>>
                   ELSE LET reg == RegisterContract(handlers, contracts, info.ChainID,
                                                    info.Address) IN
                        /\ handlers' = reg.handlers
                        /\ contracts' = reg.contracts
                        /\ lastResp' =
                              IF reg.err # "nil" THEN answer(500)
                              ELSE [answer(201) EXCEPT !.created =
                                      [chainId |-> info.ChainID,
                                       contract |-> Hex(info.Address),
                                       endpoint |-> Endpoint(info.ChainID, info.Address)]]
        /\ UNCHANGED <<engineVars, orchVars, saving>>

\* the fold of SyncFromStore's loop over the records from position i on
RECURSIVE syncRecords(_, _, _, _)
syncRecords(hs, cs, records, i) ==
    IF i > Len(records) THEN [handlers |-> hs, contracts |-> cs]
    ELSE IF ~IsHexAddress(records[i].Contract) THEN syncRecords(hs, cs, records, i + 1)
    ELSE LET reg == RegisterContract(hs, cs, records[i].ChainID,
                                     HexToAddress(records[i].Contract)) IN
         IF reg.err # "nil" THEN [handlers |-> hs, contracts |-> cs]
         ELSE syncRecords(reg.handlers, reg.contracts, records, i + 1)

\* Service.SyncFromStore: publish a handler for every record of the store
SyncFromStore ==
    /\ LET r == ListContracts(db, FALSE)
           synced == syncRecords(handlers, contracts, r.records, 1) IN
       /\ handlers' = synced.handlers
       /\ contracts' = synced.contracts
    /\ lastReq' = NoRequest /\ lastResp' = NoResponse
    /\ UNCHANGED <<storeVars, engineVars, orchVars, saving>>

\* Service.handleRoot for a GET of any of the paths
GetPath ==
    \E path \in RequestPaths :
        /\ lastReq' = [method |-> "GET", route |-> "/", path |-> path, body |-> NoBody]
        /\ lastResp' = handleRoot(handlers, contracts, path)
        /\ UNCHANGED <<storeVars, engineVars, orchVars, handlers, contracts, saving>>

\* with PersistRecord for the records main seeds before the server starts
ApiNext == PersistRecord \/ ContractsNotPost \/ PostContracts \/ SyncFromStore \/ GetPath

ApiSpec == StoreInit /\ [][ApiNext]_vars

----------------------------------------------------------------------------
(* C1: after any sequence of successful SaveEvents calls, LastIndexedBlock of   *)
(* a target returns found = true and the checkpoint passed to the last call on  *)
(* that target, and found = false for a target that never committed.            *)

C1_CheckpointRoundTrip ==
    \A t \in Targets :
        LET r == LastIndexedBlock(db, FALSE, t.chainID, t.contract) IN
        /\ r.err = "nil"
        /\ r.ok = committedCp[t].ok
        /\ r.ok => r.block = committedCp[t].block

C1_Witness ==
    /\ committedCp[T1] = [ok |-> TRUE, block |-> 3]
    /\ committedCp[T2] = [ok |-> TRUE, block |-> 300]
    /\ ~committedCp[T3].ok
    /\ lastOp.op = "SaveEvents" /\ lastOp.err = "nil"

----------------------------------------------------------------------------
(* C2: SaveEvents is all-or-nothing.  After any sequence of calls, failed ones  *)
(* included (cancelled context, invalid row, failing Set, failing Commit), the  *)
(* visible rows and the checkpoint are exactly those of the successful calls: a *)
(* failed call writes nothing, a successful call shows every row of its batch   *)
(* together with its checkpoint.                                                *)

C2_AllOrNothing ==
    /\ (lastOp.op = "SaveEvents" /\ lastOp.err # "nil") => ~lastOp.wrote
    /\ \A t \in Targets :
          /\ Visible(db, t).rows.err = "nil"
          /\ Visible(db, t).rows.events = CommittedInOrder(t)
          /\ Visible(db, t).checkpointErr = "nil"
          /\ Visible(db, t).checkpoint = committedCp[t]
    /\ Len(AllRows(db)) = Cardinality(DOMAIN committedRows[T1])

C2_Witness ==
    /\ lastOp.op = "SaveEvents"
    /\ lastOp.err = "event chainID is required"
    /\ lastOp.buffered = 1
    /\ committedCp[T1] = [ok |-> TRUE, block |-> 300]
    /\ Cardinality(DOMAIN committedRows[T1]) = 1

----------------------------------------------------------------------------
(* C3: for the engine's target, the persisted checkpoint never decreases: no     *)
(* step of any execution (poll cycles, retryable failures, restarts with the     *)
(* same or another startBlock, any chain head) leaves a stored checkpoint lower  *)
(* than the one stored before it.                                                *)

C3_CheckpointMonotonic ==
    [][LET old == LastIndexedBlock(db, FALSE, T1.chainID, T1.contract)
           new == LastIndexedBlock(db', FALSE, T1.chainID, T1.contract) IN
       old.ok => (new.ok /\ new.block >= old.block)
      ]_vars

----------------------------------------------------------------------------
(* C4: resumption without rewind.  When Run has started with a persisted         *)
(* checkpoint c and a startBlock s with s - 1 <= c (s = 0 included), the cursor  *)
(* is not below the stored checkpoint and the first window fetched starts at     *)
(* block c + 1.                                                                  *)

C4_ResumeWithoutRewind ==
    (pc # "stopped" /\ resolved.ok) =>
        /\ lastBlock >= LastIndexedBlock(db, FALSE, T1.chainID, T1.contract).block
        /\ (cfgStartBlock - 1 <= resolved.block /\ window.n = 1) =>
              window.from = resolved.block + 1

----------------------------------------------------------------------------
(* C5: first start.  When Run has started with no persisted checkpoint and a    *)
(* startBlock s, 0 included, the first window fetched starts at block s.        *)

C5_FirstStart ==
    (pc # "stopped" /\ ~resolved.ok /\ window.n = 1) => window.from = cfgStartBlock

----------------------------------------------------------------------------
(* C6: skip-ahead.  When Run has started with a persisted checkpoint c and a     *)
(* startBlock s with s - 1 > c, the cursor before the first window is s - 1,     *)
(* the first window fetched starts at block s, and no window fetched by this     *)
(* Run holds a block of c + 1 .. s - 1.                                          *)

C6_SkipAhead ==
    (pc # "stopped" /\ resolved.ok /\ cfgStartBlock - 1 > resolved.block) =>
        /\ window.n = 0 => lastBlock = cfgStartBlock - 1
        /\ window.n = 1 => window.from = cfgStartBlock
        /\ window.n > 0 =>
              \A b \in (resolved.block + 1)..(cfgStartBlock - 1) :
                  ~(window.from <= b /\ b <= window.to)

----------------------------------------------------------------------------
(* C3 to C6 away from the ends of the unsigned domain: what the engine keeps    *)
(* when the window's upper end does not wrap, the checkpoint read is below      *)
(* MaxUint64 and startBlock is positive.                                        *)

CheckpointMonotonicWithoutWrap ==
    [][(/\ pc = "drain"
        /\ U64(lastBlock + 1) + batchSize - 1 <= MaxUint64
        /\ resolved.block < MaxUint64) =>
          LET old == LastIndexedBlock(db, FALSE, T1.chainID, T1.contract)
              new == LastIndexedBlock(db', FALSE, T1.chainID, T1.contract) IN
          old.ok => (new.ok /\ new.block >= old.block)
      ]_vars

ResumeWithoutRewindBelowTop ==
    resolved.block < MaxUint64 => C4_ResumeWithoutRewind

FirstStartPositive ==
    cfgStartBlock > 0 =>
        /\ C5_FirstStart
        /\ (pc # "stopped" /\ ~resolved.ok /\ window.n = 0) =>
              lastBlock = cfgStartBlock - 1

SkipAheadFirstWindow ==
    (pc # "stopped" /\ resolved.ok /\ cfgStartBlock - 1 > resolved.block) =>
        /\ window.n = 0 => lastBlock = cfgStartBlock - 1
        /\ window.n = 1 => window.from = cfgStartBlock

----------------------------------------------------------------------------
(* C7: for every target, the unbounded ascending scan returns all committed     *)
(* events of the target strictly ascending by (blockNumber, logIndex), whatever *)
(* the batch order and the order inside a batch, and the descending scan        *)
(* returns the reverse sequence.                                                 *)

----------------------------------------------------------------------------
(* C8: ascending pagination.                                                     *)
(* As claimed: for all skip >= 0 and first >= 0, first = 0 included, the result  *)
(* is the elements [skip, skip + first) of the full ascending order.             *)
(* As the code has it: that holds for first > 0; with first = 0 the result is    *)
(* every element from position skip on.                                          *)

C8_AsClaimed ==
    \A t \in Targets : \A skip \in 0..MaxPage, first \in 0..MaxPage :
        LET r == ListEvents(db, FALSE, ListOptions(t, first, skip, "asc")) IN
        /\ r.err = "nil"
        /\ r.events = Window(CommittedInOrder(t), skip, first)

C8_AscendingPagination ==
    \A t \in Targets : \A skip \in 0..MaxPage, first \in 0..MaxPage :
        LET r == ListEvents(db, FALSE, ListOptions(t, first, skip, "asc")) IN
        /\ r.err = "nil"
        /\ first > 0 => r.events = Window(CommittedInOrder(t), skip, first)
        /\ first = 0 => r.events = From(CommittedInOrder(t), skip)

C8_Witness ==
    /\ Cardinality(DOMAIN committedRows[T1]) = 3
    /\ Len(ListEvents(db, FALSE, ListOptions(T1, 1, 1, "asc")).events) = 1
    /\ Len(ListEvents(db, FALSE, ListOptions(T1, 0, 1, "asc")).events) = 2
    /\ Cardinality(DOMAIN committedRows[T2]) = 1
    /\ ListEvents(db, FALSE, ListOptions(T2, 1, 2, "asc")).events = <<>>

----------------------------------------------------------------------------
(* C9: partition isolation.  A scan scoped to a target returns only rows whose   *)
(* identity is that target, and the rows and the checkpoint a target shows are   *)
(* those of the commits made under that target alone: a commit under another     *)
(* target, on the same chain or on another one, changes neither.                 *)

C9_PartitionIsolation ==
    \A b \in Targets :
        /\ \A dir \in {"asc", "desc"} :
              LET rows == ListEvents(db, FALSE, ListOptions(b, 0, 0, dir)).events IN
              /\ Len(rows) = Cardinality(DOMAIN committedRows[b])
              /\ \A i \in 1..Len(rows) :
                    /\ rows[i].ChainID = b.chainID
                    /\ HexToAddress(rows[i].Contract) = b.contract
                    /\ <<rows[i].BlockNumber, rows[i].LogIndex>>
                           \in DOMAIN committedRows[b]
        /\ Visible(db, b).checkpoint = committedCp[b]

C9_Witness ==
    /\ \A t \in Targets : <<1, 1>> \in DOMAIN committedRows[t]
    /\ committedCp[T1].block # committedCp[T2].block
    /\ committedCp[T3].ok
    /\ Cardinality(DOMAIN committedRows[T1]) = 3
    /\ lastOp.target = T2

----------------------------------------------------------------------------
(* C10: registration is idempotent.  Once SaveContract(T, s1) has succeeded, a   *)
(* later SaveContract(T, s2) with s2 # s1 writes nothing and, when its context   *)
(* is live and its lookup works, returns nil; ListContracts holds exactly one    *)
(* record for T, with startBlock s1.                                             *)

RecordsOf(d, t) ==
    LET l == ListContracts(d, FALSE).records IN
    {i \in 1..Len(l) : l[i].ChainID = t.chainID /\ l[i].Contract = Hex(t.contract)}

----------------------------------------------------------------------------
(* C13: retryable failures.  When the head query or the log fetch fails, Run     *)
(* does not return, the cursor and the stored checkpoint keep the value of the   *)
(* last successful commit, and the next window tried starts at the same block,   *)
(* cursor + 1.                                                                   *)

C13_RetryableFailures ==
    [][/\ (window' # window /\ window'.outcome \in {ErrFetchHead.msg, ErrFilterLogs.msg}) =>
             /\ pc' = "poll"
             /\ runErr' = runErr
             /\ lastBlock' = lastBlock
             /\ db' = db
             /\ committedCp' = committedCp
       /\ (/\ window.outcome \in {ErrFetchHead.msg, ErrFilterLogs.msg}
           /\ window'.n > 0
           /\ window' # window
           /\ window'.outcome # ErrFetchHead.msg) =>
             /\ window'.from = U64(lastBlock + 1)
             /\ window.outcome = ErrFilterLogs.msg => window'.from = window.from
      ]_vars

C13_Witness ==
    /\ window.outcome = ErrFilterLogs.msg
    /\ window.n = 2
    /\ pc = "poll"
    /\ committedCp[T1].ok
    /\ lastBlock = committedCp[T1].block
    /\ window.from = lastBlock + 1

----------------------------------------------------------------------------
(* C14: fatal failures.  A log index beyond 32 bits, a log without its indexed   *)
(* account topic, or a failing SaveEvents makes Run return that error: the       *)
(* window is not committed, the checkpoint stays, and the stopped engine neither *)
(* polls nor commits.                                                            *)

C14_FatalFailures ==
    [][/\ (/\ window' # window
           /\ window'.outcome
                 \in {ErrLogIndex.msg, ErrMissingTopic.msg, ErrStoreEvents.msg}) =>
             /\ pc' = "stopped"
             /\ runErr' = window'.outcome
             /\ db' = db
             /\ committedCp' = committedCp
       /\ pc = "stopped" => (db' = db /\ pc' # "drain" /\ head' = 0)
      ]_vars

C14_Witness ==
    /\ window.outcome = ErrStoreEvents.msg
    /\ pc = "stopped"
    /\ runErr = ErrStoreEvents.msg
    /\ committedCp[T1].ok
    /\ window.to > committedCp[T1].block
    /\ lastOp.err = "commit events"

----------------------------------------------------------------------------
(* C16: every window that is committed is committed by one SaveEvents call that  *)
(* sets the checkpoint to the window's upper end, with or without events, and   *)
(* no window tried later, by this Run or by one started afterwards, holds a     *)
(* block of a range that was committed without events.                          *)

C16_EmptyRangeNotRefetched ==
    [][/\ (window' # window /\ window'.outcome = "committed") =>
             /\ lastOp'.op = "SaveEvents" /\ lastOp'.err = "nil"
             /\ LastIndexedBlock(db', FALSE, T1.chainID, T1.contract)
                   = [err |-> "nil", ok |-> TRUE, block |-> window'.to]
       /\ (/\ window' # window
           /\ window'.n > 0
           /\ window'.outcome # ErrFetchHead.msg
           /\ emptyRange.ok) =>
             ~(window'.from <= emptyRange.to /\ emptyRange.from <= window'.to)
      ]_vars

\* the first half alone: a committed window, empty or not, moves the checkpoint to
\* its upper end in the one SaveEvents call of the step
WindowCommitsCheckpoint ==
    [][(window' # window /\ window'.outcome = "committed") =>
          /\ lastOp'.op = "SaveEvents" /\ lastOp'.err = "nil"
          /\ lastOp'.wrote = FALSE
          /\ committedCp'[T1] = [ok |-> TRUE, block |-> window'.to]
          /\ LastIndexedBlock(db', FALSE, T1.chainID, T1.contract)
                = [err |-> "nil", ok |-> TRUE, block |-> window'.to]
          /\ lastBlock' = window'.to
      ]_vars

\* an empty window has been committed and is the checkpoint
EmptyWindowCommitted ==
    /\ emptyRange.ok
    /\ window.outcome = "committed"
    /\ window.from <= window.to /\ fetchEvents(T1, window.from, window.to) = <<>>
    /\ committedCp[T1] = [ok |-> TRUE, block |-> window.to]
    /\ committedRows[T1] = <<>>

----------------------------------------------------------------------------
(* C11: however the ensureRegistered calls of concurrent callers for one target *)
(* interleave, at most one engine goroutine is ever launched for the target,    *)
(* the registry holds the target's key exactly when one was launched, and a     *)
(* call that was admitted leaves exactly one engine and one entry behind.       *)

C11_SingleAdmission ==
    [][\A t \in ServiceTargets :
          LET key == indexerKey(t.chainID, t.contract) IN
          /\ Len(engines'[t]) <= 1
          /\ indexers \subseteq indexers'
          /\ key \in indexers' <=> Len(engines'[t]) = 1
          /\ \A c \in Callers :
                (callers[c].pc = "insert" /\ callers'[c].pc # "insert") =>
                    (Len(engines'[t]) = 1 /\ key \in indexers')
      ]_vars

\* a call that passed the first look while the target was not registered is about
\* to take the mutex again, and the other caller has inserted meanwhile
C11_Witness ==
    /\ callers[1].pc = "insert"
    /\ callers[2].pc = "wait"
    /\ indexers = {indexerKey(T1.chainID, T1.contract)}
    /\ Len(engines[T1]) = 1
    /\ engines[T1][1].status = "running"

----------------------------------------------------------------------------
(* C12: a registration record whose chain has an RPC endpoint leads to an       *)
(* engine launched for its target, unless the root context is cancelled,        *)
(* provided the discovery loop keeps ticking.                                   *)

C12_RuntimeExtension ==
    \A t \in ServiceTargets :
        (/\ Get(db, contractKey(t.chainID, t.contract)).found
         /\ t.chainID \in endpoints)
            ~> (Len(engines[t]) >= 1 \/ ctxDone)

\* the record's engine is running, while main is serving and nothing is cancelled
C12_Witness ==
    /\ Get(db, contractKey(T1.chainID, T1.contract)).found
    /\ Len(engines[T1]) = 1
    /\ engines[T1][1].status = "running"
    /\ indexerKey(T1.chainID, T1.contract) \in indexers
    /\ ~ctxDone
    /\ mainPc = "serving"

----------------------------------------------------------------------------
(* C15: once a target's engine has ended with an error that is not retryable,   *)
(* no step launches another engine for the target, its registry entry stays,    *)
(* and the target's checkpoint and rows never change again.                     *)

FatallyEnded(e) ==
    /\ e.status \in {"returned", "done"}
    /\ e.err \in {ErrLogIndex.msg, ErrStoreEvents.msg}

C15_NoAutomaticRestart ==
    [][\A t \in ServiceTargets :
          (engines[t] # <<>> /\ FatallyEnded(engines[t][1])) =>
              /\ Len(engines'[t]) = 1
              /\ FatallyEnded(engines'[t][1])
              /\ indexerKey(t.chainID, t.contract) \in indexers'
              /\ db' = db
              /\ committedCp'[t] = committedCp[t]
      ]_vars

\* the engine ended on a failed commit with blocks left to index, and a later
\* pass of the discovery loop is looking at the target's record
C15_Witness ==
    /\ Len(engines[T1]) = 1
    /\ engines[T1][1].status = "done"
    /\ engines[T1][1].err = ErrStoreEvents.msg
    /\ committedCp[T1].ok
    /\ committedCp[T1].block < ServiceHead
    /\ callers[1].pc = "check"
    /\ ~ctxDone

----------------------------------------------------------------------------
(* C17: a forward to the error channel never blocks: the step that forwards an  *)
(* engine's error, a listing error or an admission error is enabled whenever    *)
(* its goroutine is at it, whether or not anybody reads; the error is appended  *)
(* when there is room and dropped when the channel is full, and the channel     *)
(* never holds more than its capacity.                                          *)

C17_BestEffortErrCh ==
    [][/\ Len(errCh') <= ErrChCapacity
       /\ \A c \in Callers :
             /\ callers[c].pc = "wait" => ENABLED SyncContracts(c)
             /\ callers[c].pc = "build" => ENABLED BuildIndexer(c)
       /\ \A t \in ServiceTargets : \A i \in DOMAIN engines[t] :
             engines[t][i].status = "returned" =>
                /\ ENABLED ForwardRunErr(t, i)
                /\ engines'[t][i].status \in {"returned", "done"}
                /\ engines'[t][i].status = "done" =>
                      errCh' = IF Len(errCh) < ErrChCapacity
                               THEN Append(errCh, engines[t][i].err)
                               ELSE errCh
      ]_vars

\* main has gone, the channel is full, and the engine goroutine has ended after
\* its error was dropped
C17_Witness ==
    /\ mainPc = "exited"
    /\ Len(errCh) = ErrChCapacity
    /\ Len(engines[T1]) = 1
    /\ engines[T1][1].status = "done"
    /\ engines[T1][1].err = ErrStoreEvents.msg
    /\ \A k \in 1..Len(errCh) : errCh[k] # ErrStoreEvents.msg

----------------------------------------------------------------------------
(* C18: publishing is idempotent per target: a published handler is never       *)
(* replaced or removed, every published key has one handler, serving its own    *)
(* chain and contract, and one entry in the contracts, and the listing of "/"   *)
(* names every published target once.                                           *)

TargetInfo(t) == [ChainID |-> t.chainID, Address |-> t.contract, StartBlock |-> 0]

\* every key has one handler, of its own target, and one entry in cs, and the
\* listing names each published target once
PublishedOnce(hs, cs) ==
    /\ Len(cs) = Cardinality(DOMAIN hs)
    /\ {Key(cs[i]) : i \in 1..Len(cs)} = DOMAIN hs
    /\ \A key \in DOMAIN hs :
          Key([ChainID |-> hs[key].chainID, Address |-> hs[key].contract]) = key
    /\ LET listing == handleRoot(hs, cs, <<>>).listing IN
       \A t \in ApiTargets :
          Cardinality({i \in 1..Len(listing) :
                          /\ listing[i].info.ChainID = t.chainID
                          /\ listing[i].info.Address = t.contract})
             = IF Key(TargetInfo(t)) \in DOMAIN hs THEN 1 ELSE 0

C18_PublicationIdempotent ==
    [][/\ \A key \in DOMAIN handlers :
             key \in DOMAIN handlers' /\ handlers'[key] = handlers[key]
       /\ (handlers' # handlers \/ contracts' # contracts) =>
             PublishedOnce(handlers', contracts')
      ]_vars

\* T1 was published first, T3 after it, and a POST for T1 whose record was
\* already stored has just been answered: T1 still has its first handler
C18_Witness ==
    /\ lastReq.method = "POST"
    /\ lastReq.body = AddressBody(T1, 2)
    /\ lastResp.code = 201
    /\ ~lastOp.wrote
    /\ Len(contracts) = 2
    /\ handlers[Key(TargetInfo(T1))].id = 1
    /\ handlers[Key(TargetInfo(T3))].id = 2

----------------------------------------------------------------------------
(* C19: a GET of /{chainId}/{contract}/graphql is answered "not found" when no  *)
(* schema is published for the target, which includes chainId 0, an address     *)
(* that is no hex address and every malformed path; once the target is          *)
(* published the request is served by the target's own handler.                 *)

C19_Routing ==
    (lastReq.method = "GET" /\ lastReq.route = "/" /\ lastReq.path # <<>>) =>
        /\ lastReq.path \in MalformedPaths => lastResp = NotFound
        /\ \A t \in ApiTargets \cup {T2} :
              (\/ lastReq.path = Endpoint(t.chainID, t.contract)
               \/ lastReq.path = <<<<0>> \o Decimal(t.chainID), Hex(t.contract),
                                   GraphqlSegment>>) =>
                 IF Key(TargetInfo(t)) \in DOMAIN handlers
                 THEN /\ lastResp.code = 200
                      /\ lastResp.servedBy = handlers[Key(TargetInfo(t))]
                      /\ lastResp.servedBy.chainID = t.chainID
                      /\ lastResp.servedBy.contract = t.contract
                 ELSE lastResp = NotFound
        /\ lastResp # NotFound =>
              /\ lastResp.code = 200
              /\ Len(lastReq.path) = 3
              /\ lastReq.path[3] = GraphqlSegment
              /\ DecimalValue(lastReq.path[1]) = lastResp.servedBy.chainID
              /\ ToLower(lastReq.path[2]) = Hex(lastResp.servedBy.contract)
              /\ \E key \in DOMAIN handlers : handlers[key] = lastResp.servedBy

\* both targets are published and T3's endpoint has been served by T3's handler
C19_Witness ==
    /\ lastReq.method = "GET"
    /\ lastReq.path = Endpoint(T3.chainID, T3.contract)
    /\ Len(contracts) = 2
    /\ lastResp.code = 200
    /\ lastResp.servedBy.chainID = T3.chainID
    /\ lastResp.servedBy.contract = T3.contract

\* a path with chain 0 has been answered "not found" while T1 is published
NotFoundServed ==
    /\ lastReq.method = "GET"
    /\ lastReq.path = <<Decimal(0), Hex(T1.contract), GraphqlSegment>>
    /\ Key(TargetInfo(T1)) \in DOMAIN handlers
    /\ lastResp = NotFound

----------------------------------------------------------------------------
(* C20: a POST /contracts whose body is {chainId, contract, startBlock}, with a *)
(* chainId that is not 0 and a valid contract address that is not zero, is      *)
(* answered 201 with the chainId, the contract and the endpoint                 *)
(* "/{chainId}/{contract}/graphql" (500 when the store fails); afterwards the   *)
(* record is stored and the target is published.                                *)

Created(t) ==
    [chainId |-> t.chainID, contract |-> Hex(t.contract),
     endpoint |-> Endpoint(t.chainID, t.contract)]

\* what a POST for target t leaves behind when it is answered 201: the record
\* stored, with the startBlock of the first registration, and the target
\* published under the endpoint of the response
Registered(t) ==
    /\ lastResp.created = Created(t)
    /\ lastOp.op = "SaveContract" /\ lastOp.err = "nil"
    /\ Get(db, contractKey(t.chainID, t.contract)).found
    /\ Cardinality(RecordsOf(db, t)) = 1
    /\ \A i \in RecordsOf(db, t) :
          ListContracts(db, FALSE).records[i].StartBlock = registeredAs[t].startBlock
    /\ Key(TargetInfo(t)) \in DOMAIN handlers
    /\ handleRoot(handlers, contracts, lastResp.created.endpoint).servedBy
          = handlers[Key(TargetInfo(t))]

C20_PostContracts ==
    \A t \in ApiTargets :
        (lastReq.method = "POST" /\ lastReq.body = ContractBody(t, 1)) =>
            \/ lastResp.code = 201 /\ Registered(t)
            \/ lastResp.code = 500 /\ lastOp.err # "nil"

\* the same with the address in the member "address": 201, the record stored and
\* never changed by a repetition, the target published; 500 when the store fails
PostWithAddressMember ==
    \A t \in ApiTargets, s \in ApiStartBlocks :
        (lastReq.method = "POST" /\ lastReq.body = AddressBody(t, s)) =>
            \/ lastResp.code = 201 /\ Registered(t)
            \/ /\ lastResp.code = 500
               /\ lastOp.op = "SaveContract" /\ lastOp.err # "nil" /\ ~lastOp.wrote

\* a repeated POST with another startBlock was answered 201 and changed nothing
RepeatedPost ==
    /\ lastReq.method = "POST"
    /\ lastReq.body = AddressBody(T1, 2)
    /\ lastResp.code = 201
    /\ registeredAs[T1] = [ok |-> TRUE, startBlock |-> 1]
    /\ ~lastOp.wrote

----------------------------------------------------------------------------
(* C21: a POST /contracts whose target identity is malformed (chainId 0, an     *)
(* address that is no 20-byte hex string, the zero address) is answered with a  *)
(* 4xx status, and the store, the handlers and the contracts are unchanged.     *)

MalformedIdentityBodies ==
    {[AddressBody(T1, 1) EXCEPT !.chainId = 0],
     [AddressBody(T1, 1) EXCEPT !.address = Hex(ZeroAddress)],
     [AddressBody(T1, 1) EXCEPT !.address = BadHex]}

C21_MalformedRejected ==
    [][(lastReq'.method = "POST" /\ lastReq'.body \in MalformedIdentityBodies) =>
          /\ lastResp'.code \in 400..499
          /\ db' = db
          /\ handlers' = handlers
          /\ contracts' = contracts
      ]_vars

\* the same with any error status: nothing is stored or published, chainId 0 and
\* a string that is no hex address are answered 400, the zero address 500
MalformedHasNoSideEffect ==
    [][(lastReq'.method = "POST" /\ lastReq'.body \in MalformedIdentityBodies) =>
          /\ lastResp'.code =
                IF lastReq'.body.address = Hex(ZeroAddress) /\ lastReq'.body.chainId # 0
                THEN 500 ELSE 400
          /\ lastResp'.created = NoCreated
          /\ db' = db
          /\ handlers' = handlers
          /\ contracts' = contracts
      ]_vars

\* the zero address was refused by the store, after a target was published
ZeroAddressRefused ==
    /\ lastReq.method = "POST"
    /\ lastReq.body = [AddressBody(T1, 1) EXCEPT !.address = Hex(ZeroAddress)]
    /\ lastResp.code = 500
    /\ lastOp.op = "SaveContract"
    /\ lastOp.err = "contract address is required"
    /\ Len(contracts) = 1

----------------------------------------------------------------------------
(* C22: ListEvents returns an error and no events for a negative skip, a        *)
(* negative first, an orderBy that is neither blockNumber nor empty and an      *)
(* orderDirection that is none of asc, desc and empty; with an empty            *)
(* orderDirection (and with an empty orderBy) it returns what asc returns.      *)

\* options ListEvents must refuse, for target t
RefusedOptions(t) ==
    {[ListOptions(t, 0, 0, "asc") EXCEPT !.Skip = -1],
     [ListOptions(t, 0, 0, "desc") EXCEPT !.First = -1],
     [ListOptions(t, 1, 0, "") EXCEPT !.Skip = -1, !.First = -1],
     [ListOptions(t, 0, 0, "asc") EXCEPT !.OrderBy = "logIndex"],
     [ListOptions(t, 0, 0, "") EXCEPT !.OrderBy = "BlockNumber"],
     ListOptions(t, 0, 0, "ASC"),
     ListOptions(t, 1, 1, "ascending")}

C22_ListEventsValidation ==
    \A t \in {T1, T2} :
        /\ \A opts \in RefusedOptions(t) :
              LET r == ListEvents(db, FALSE, opts) IN
              r.err # "nil" /\ r.events = <<>>
        /\ \A first \in {0, 1}, skip \in {0, 1} :
              /\ ListEvents(db, FALSE, ListOptions(t, first, skip, ""))
                    = ListEvents(db, FALSE, ListOptions(t, first, skip, "asc"))
              /\ ListEvents(db, FALSE,
                            [ListOptions(t, first, skip, "") EXCEPT !.OrderBy = ""])
                    = ListEvents(db, FALSE, ListOptions(t, first, skip, "asc"))

\* T1 has three rows: the scan with an empty direction returns them, in
\* ascending order, and the scans with refused options return none
C22_Witness ==
    /\ Cardinality(DOMAIN committedRows[T1]) = 3
    /\ LET r == ListEvents(db, FALSE, ListOptions(T1, 0, 1, "")) IN
       /\ r.err = "nil"
       /\ Len(r.events) = 2
       /\ Before(r.events[1], r.events[2])
    /\ \A opts \in RefusedOptions(T1) : ListEvents(db, FALSE, opts).events = <<>>

----------------------------------------------------------------------------
(* Start-block correction and the listing with its sync status *)

\* a correction that replaces the stored startBlock whatever it is
SetContractStartBlockAlways(d, chainID, contract, startBlock, fault) ==
    IF fault = "ctx" THEN [err |-> "ctx", db |-> d]
    ELSE IF chainID = 0 THEN [err |-> "chainID is required", db |-> d]
    ELSE IF contract = ZeroAddress
    THEN [err |-> "contract address is required", db |-> d]
    ELSE LET key == contractKey(chainID, contract)
             stored == UnmarshalContract(Get(d, key).value) IN
         IF fault = "commit" THEN [err |-> "commit contract", db |-> d]
         ELSE [err |-> "nil",
               db |-> TxCommit(d, TxSet(WriteTx, key,
                          MarshalContract([stored EXCEPT !.StartBlock = startBlock])))]

\* Store.SetContractStartBlock on a target whose record is stored: [err, db].
\* A record whose startBlock is 0 gets the new startBlock, a record with a
\* non-zero startBlock is left as it is (TestSetContractStartBlock)
SetContractStartBlock(d, chainID, contract, startBlock, fault) ==
    IF fault = "ctx" THEN [err |-> "ctx", db |-> d]
    ELSE IF chainID = 0 THEN [err |-> "chainID is required", db |-> d]
    ELSE IF contract = ZeroAddress
    THEN [err |-> "contract address is required", db |-> d]
    ELSE LET key == contractKey(chainID, contract)
             stored == UnmarshalContract(Get(d, key).value) IN
         IF stored.StartBlock # 0 THEN [err |-> "nil", db |-> d]
         ELSE IF fault = "commit" THEN [err |-> "commit contract", db |-> d]
         ELSE [err |-> "nil",
               db |-> TxCommit(d, TxSet(WriteTx, key,
                          MarshalContract([stored EXCEPT !.StartBlock = startBlock])))]

\* the startBlock of the record stored for t (0 without a record)
StoredStartBlock(d, t) ==
    LET got == Get(d, contractKey(t.chainID, t.contract)) IN
    IF got.found THEN UnmarshalContract(got.value).StartBlock ELSE 0

IsRegistered(d, t) == Get(d, contractKey(t.chainID, t.contract)).found

\* what chainHeadResolver.HeadBlock returns for a chain: the head, or an error
NoHead == [ok |-> FALSE, block |-> 0]

\* a listing whose flag needs a checkpoint beyond the head
contractsWithSyncStatusBeyondHead(d, cs, heads) ==
    LET sorted == sortedContracts(cs) IN
    [i \in 1..Len(sorted) |->
        LET c == sorted[i]
            got == Get(d, contractKey(c.ChainID, c.Address))
            last == LastIndexedBlock(d, FALSE, c.ChainID, c.Address)
            h == heads[c.ChainID] IN
        [ChainID |-> c.ChainID, Address |-> c.Address,
         StartBlock |-> IF got.found THEN UnmarshalContract(got.value).StartBlock
                        ELSE c.StartBlock,
         Synced |-> h.ok /\ last.err = "nil" /\ last.ok /\ last.block > h.block]]

\* a listing that reports the startBlock cached at publication
contractsWithCachedStartBlock(d, cs, heads) ==
    LET sorted == sortedContracts(cs) IN
    [i \in 1..Len(sorted) |->
        LET c == sorted[i]
            last == LastIndexedBlock(d, FALSE, c.ChainID, c.Address)
            h == heads[c.ChainID] IN
        [ChainID |-> c.ChainID, Address |-> c.Address, StartBlock |-> c.StartBlock,
         Synced |-> h.ok /\ last.err = "nil" /\ last.ok /\ last.block >= h.block]]

\* Service.contractsWithSyncStatus: the published contracts in listing order,
\* each with the startBlock of its stored record and the flag derived from its
\* checkpoint and the head of its chain; a head or a checkpoint that cannot be
\* resolved gives an unsynced entry
contractsWithSyncStatus(d, cs, heads) ==
    LET sorted == sortedContracts(cs) IN
    [i \in 1..Len(sorted) |->
        LET c == sorted[i]
            got == Get(d, contractKey(c.ChainID, c.Address))
            last == LastIndexedBlock(d, FALSE, c.ChainID, c.Address)
            h == heads[c.ChainID] IN
        [ChainID |-> c.ChainID, Address |-> c.Address,
         StartBlock |-> IF got.found THEN UnmarshalContract(got.value).StartBlock
                        ELSE c.StartBlock,
         Synced |-> h.ok /\ last.err = "nil" /\ last.ok /\ last.block >= h.block]]

\* the targets, on two chains, and the values of the listing specification
ListingTargets == {T1, T3}
ListingStartBlocks == {0, 1}
ListingCorrections == {1, 2}
ListingCheckpoints == {1, 2}
ListingHeads == {NoHead, [ok |-> TRUE, block |-> 1], [ok |-> TRUE, block |-> 2]}

\* one SetContractStartBlock call for a registered target t
CallSetContractStartBlock(t, b, fault) ==
    LET r == SetContractStartBlock(db, t.chainID, t.contract, b, fault) IN
    /\ IsRegistered(db, t)
    /\ db' = r.db
    /\ lastOp' = [op |-> "SetContractStartBlock", target |-> t, err |-> r.err,
                  buffered |-> 0, fault |-> fault, startBlock |-> b,
                  wrote |-> r.db # db]
    /\ UNCHANGED <<committedCp, committedRows, registeredAs>>

\* a target is registered (main's seeding, or POST /contracts)
ListingRegister ==
    \E t \in ListingTargets, s \in ListingStartBlocks :
        /\ CallSaveContract(t, s, "none")
        /\ lastReq' = NoRequest /\ lastResp' = NoResponse
        /\ UNCHANGED <<engineVars, orchVars, handlers, contracts, saving>>

\* the startBlock of a registered target is corrected
ListingSetStartBlock ==
    \E t \in ListingTargets, b \in ListingCorrections, fault \in {"none", "commit"} :
        /\ CallSetContractStartBlock(t, b, fault)
        /\ lastReq' = NoRequest /\ lastResp' = NoResponse
        /\ UNCHANGED <<engineVars, orchVars, handlers, contracts, saving>>

\* the engine of a registered target commits an empty window
ListingCheckpoint ==
    \E t \in ListingTargets, cp \in ListingCheckpoints :
        /\ IsRegistered(db, t)
        /\ ~committedCp[t].ok \/ committedCp[t].block <= cp
        /\ CallSaveEvents(t, <<>>, cp, NoFault)
        /\ lastReq' = NoRequest /\ lastResp' = NoResponse
        /\ UNCHANGED <<engineVars, orchVars, handlers, contracts, saving>>

\* GET /: the listing, the head resolver answering heads[chain] for each chain;
\* lastReq keeps the answers next to the request, and the store has last been
\* read
ListingGet ==
    \E heads \in [{t.chainID : t \in ListingTargets} -> ListingHeads] :
        LET infos == contractsWithSyncStatus(db, contracts, heads) IN
        /\ lastOp' = [op |-> "LastIndexedBlock", target |-> T1, err |-> "nil",
                      buffered |-> 0, fault |-> "none", startBlock |-> 0,
                      wrote |-> FALSE]
        /\ lastReq' = [method |-> "GET", route |-> "/", path |-> <<>>,
                       body |-> NoBody, heads |-> heads]
        /\ lastResp' = [code |-> 200, servedBy |-> NoHandler, created |-> NoCreated,
                        listing |-> [i \in 1..Len(infos) |->
                            [info |-> infos[i],
                             endpoint |-> Endpoint(infos[i].ChainID, infos[i].Address)]]]
        /\ UNCHANGED <<db, committedCp, committedRows, registeredAs>>
        /\ UNCHANGED <<engineVars, orchVars, handlers, contracts, saving>>

ListingNext ==
    \/ ListingRegister
    \/ ListingSetStartBlock
    \/ ListingCheckpoint
    \/ SyncFromStore
    \/ ListingGet

ListingSpec == StoreInit /\ [][ListingNext]_vars

\* the last step served a listing
Listed == lastReq.method = "GET" /\ lastResp.code = 200 /\ "heads" \in DOMAIN lastReq

\* the target of a listing entry
TargetOf(info) == [chainID |-> info.ChainID, contract |-> info.Address]

----------------------------------------------------------------------------
(* C23: in a listing, a target whose chain head was resolved is reported synced *)
(* exactly when its committed checkpoint is at least that head; the listing     *)
(* writes nothing to the store and nothing to the published contracts.          *)

----------------------------------------------------------------------------
(* C24: every entry of a listing carries the startBlock of the record stored    *)
(* for its target at the time of the listing, not the one cached at publication.*)

----------------------------------------------------------------------------
(* C25: a successful SetContractStartBlock(t, b) stores b when the stored       *)
(* startBlock is 0 and leaves the stored startBlock as it is when it is not 0.  *)

----------------------------------------------------------------------------
(* C26, as claimed: after a successful SetContractStartBlock(t, b) on a         *)
(* registered target the stored startBlock is b, whatever it was before.        *)

----------------------------------------------------------------------------
(* C27: once the root context is cancelled, every engine that is running        *)
(* returns from Run, and returns the context's error, and the discovery loop    *)
(* ends and then starts no pass again.                                          *)

NoEngineRunning ==
    \A t \in ServiceTargets : \A i \in DOMAIN engines[t] : engines[t][i].status # "running"

\* an engine that returns while the context is cancelled returns its error
ReturnsCancelled ==
    \A t \in ServiceTargets : \A i \in DOMAIN engines[t] :
        (ctxDone /\ engines[t][i].status = "running"
                 /\ engines'[t][i].status = "returned") =>
            engines'[t][i].err = "context canceled"

C27_Cancellation ==
    /\ ctxDone ~> (NoEngineRunning /\ callers[1].pc = "exited")
    /\ [][ReturnsCancelled]_vars
    /\ [][callers[1].pc = "exited" => callers'[1].pc = "exited"]_vars

\* the part of C27 that holds: every engine ends, the discovery loop ends for good
CancellationStopsEverything ==
    /\ ctxDone ~> (NoEngineRunning /\ callers[1].pc = "exited")
    /\ [][callers[1].pc = "exited" => callers'[1].pc = "exited"]_vars

\* an engine has returned a store error under a cancelled context
EndedFailedWhileCancelled ==
    /\ ctxDone
    /\ \E i \in DOMAIN engines[T1] :
          engines[T1][i].status = "returned" /\ engines[T1][i].err = ErrStoreEvents.msg
    /\ lastOp.op = "SaveEvents" /\ lastOp.err = "ctx"

----------------------------------------------------------------------------
(* The CORS wrapper of the HTTP server (withCORS) *)

\* characters of header values and of the origin list: 60 is a blank, 61 a comma,
\* 62 the star; letters as in ToLower
Blanks == {60}
Separators == {60, 61}
Star == <<62>>

\* strings.TrimSpace
RECURSIVE TrimSpace(_)
TrimSpace(str) ==
    IF str = <<>> THEN str
    ELSE IF Head(str) \in Blanks THEN TrimSpace(Tail(str))
    ELSE IF str[Len(str)] \in Blanks THEN TrimSpace(SubSeq(str, 1, Len(str) - 1))
    ELSE str

\* splitList: the non-empty fields of value between separators; field is the
\* field being read
RECURSIVE splitFields(_, _)
splitFields(value, field) ==
    IF value = <<>> THEN (IF field = <<>> THEN <<>> ELSE <<field>>)
    ELSE IF Head(value) \in Separators
    THEN (IF field = <<>> THEN <<>> ELSE <<field>>) \o splitFields(Tail(value), <<>>)
    ELSE splitFields(Tail(value), Append(field, Head(value)))

splitList(value) == splitFields(value, <<>>)

\* every entry of every value, in order
RECURSIVE allEntries(_)
allEntries(values) ==
    IF values = <<>> THEN <<>> ELSE splitList(Head(values)) \o allEntries(Tail(values))

\* the entries without those seen before in lower case
RECURSIVE unseen(_, _)
unseen(entries, seen) ==
    IF entries = <<>> THEN <<>>
    ELSE IF ToLower(Head(entries)) \in seen THEN unseen(Tail(entries), seen)
    ELSE <<Head(entries)>> \o unseen(Tail(entries), seen \cup {ToLower(Head(entries))})

\* normalizeAllowedOrigins: the star alone for no value, no entry or a star among
\* the entries reached; else the entries, once each
normalizeAllowedOrigins(values) ==
    LET entries == allEntries(values) IN
    IF values = <<>> THEN <<Star>>
    ELSE IF \E i \in 1..Len(entries) : entries[i] = Star THEN <<Star>>
    ELSE IF entries = <<>> THEN <<Star>>
    ELSE unseen(entries, {})

\* an origin check that compares the origin with the entries as written
allowedOriginExact(origins, allowAll, origin) ==
    IF allowAll THEN Star
    ELSE IF \E i \in 1..Len(origins) : origins[i] = origin THEN origin
    ELSE <<>>

\* withCORS, the value of the Access-Control-Allow-Origin header: the star when
\* every origin is allowed, the origin when an entry equals it under case
\* folding, nothing otherwise
allowedOriginOf(origins, allowAll, origin) ==
    IF allowAll THEN Star
    ELSE IF \E i \in 1..Len(origins) : ToLower(origins[i]) = ToLower(origin) THEN origin
    ELSE <<>>

\* the default of Access-Control-Allow-Headers ("Content-Type, Authorization")
DefaultAllowHeaders == <<46, 61, 60, 47>>

\* the response of the wrapped handler to a request of /healthz
HealthzResponse ==
    [code |-> 200, servedBy |-> NoHandler, listing |-> <<>>, created |-> NoCreated]

\* withCORS(next, allowedOrigins) serving request r, next being the routes: the
\* response with its CORS headers, and whether next was called
withCORS(allowedOrigins, r) ==
    LET origins == normalizeAllowedOrigins(allowedOrigins)
        allowAll == Len(origins) = 1 /\ origins[1] = Star
        origin == TrimSpace(r.origin)
        isPreflight == r.method = "OPTIONS" /\ TrimSpace(r.requestMethod) # <<>>
        allowedOrigin == allowedOriginOf(origins, allowAll, origin)
        requestHeaders == TrimSpace(r.requestHeaders)
        passed(allowOrigin, vary) ==
            HealthzResponse @@ [reachedNext |-> TRUE, allowOrigin |-> allowOrigin,
                                vary |-> vary, allowHeaders |-> <<>>]
        answered(code, allowOrigin, vary, allowHeaders) ==
            [code |-> code, servedBy |-> NoHandler, listing |-> <<>>,
             created |-> NoCreated, reachedNext |-> FALSE, allowOrigin |-> allowOrigin,
             vary |-> vary, allowHeaders |-> allowHeaders] IN
    IF origin = <<>> THEN passed(<<>>, FALSE)
    ELSE IF allowedOrigin = <<>>
    THEN IF isPreflight THEN answered(403, <<>>, FALSE, <<>>) ELSE passed(<<>>, FALSE)
    ELSE IF isPreflight
    THEN answered(204, allowedOrigin, ~allowAll,
                  IF requestHeaders = <<>> THEN DefaultAllowHeaders ELSE requestHeaders)
    ELSE passed(allowedOrigin, ~allowAll)

\* origins: "ab", "AB", " ab" and "c"; a blank Origin header; none
OriginHeaders == {<<>>, <<60>>, <<10, 11>>, <<26, 27>>, <<60, 10, 11>>, <<12>>}

\* the values of -cors-allowed-origins, with what each is meant to allow: every
\* origin (all), or the origins of a set, in lower case
CorsConfigs ==
    {[values |-> <<>>, all |-> TRUE, origins |-> {}],
     [values |-> <<<<60>>, <<61>>>>, all |-> TRUE, origins |-> {}],
     [values |-> <<<<10, 11>>>>, all |-> FALSE, origins |-> {<<10, 11>>}],
     [values |-> <<<<26, 27, 61, 60, 13>>, <<10, 11>>>>, all |-> FALSE,
      origins |-> {<<10, 11>>, <<13>>}],
     [values |-> <<<<10, 11>>, <<13, 61, 62>>>>, all |-> TRUE, origins |-> {}]}

\* one request of /healthz through the wrapper of a server started with a list of
\* allowed origins; lastReq keeps the list next to the request
CorsRequest ==
    \E cfg \in CorsConfigs, method \in {"OPTIONS", "GET", "POST"},
       origin \in OriginHeaders, requestMethod \in {<<>>, <<60>>, <<40>>},
       requestHeaders \in {<<>>, <<48>>} :
        LET r == [method |-> method, route |-> "/healthz", path |-> <<>>,
                  body |-> NoBody, origin |-> origin, requestMethod |-> requestMethod,
                  requestHeaders |-> requestHeaders, allowed |-> cfg] IN
        /\ lastReq' = r
        /\ lastResp' = withCORS(cfg.values, r)
        /\ UNCHANGED <<storeVars, engineVars, orchVars, handlers, contracts, saving>>

CorsNext == CorsRequest

CorsSpec == StoreInit /\ [][CorsNext]_vars

----------------------------------------------------------------------------
(* C28: an OPTIONS request with an Origin and an Access-Control-Request-Method  *)
(* header never reaches the wrapped handler; it is answered 204 with            *)
(* Access-Control-Allow-Origin "*" when every origin is allowed, 204 with the   *)
(* request's origin when the origin is in the allowed list, and 403 otherwise.  *)

\* the last request went through the CORS wrapper as a preflight request
Preflight ==
    /\ "origin" \in DOMAIN lastReq
    /\ lastReq.method = "OPTIONS"
    /\ TrimSpace(lastReq.origin) # <<>>
    /\ TrimSpace(lastReq.requestMethod) # <<>>

C28_PreflightAnswered ==
    Preflight =>
        /\ ~lastResp.reachedNext
        /\ IF lastReq.allowed.all
           THEN lastResp.code = 204 /\ lastResp.allowOrigin = Star
           ELSE IF ToLower(TrimSpace(lastReq.origin)) \in lastReq.allowed.origins
           THEN lastResp.code = 204 /\ lastResp.allowOrigin = TrimSpace(lastReq.origin)
           ELSE lastResp.code = 403 /\ lastResp.allowOrigin = <<>>

\* the preflight request of origin "AB" against the list "AB, d" and "ab" is
\* answered 204 with the origin "AB"
C28_Witness ==
    /\ Preflight
    /\ ~lastReq.allowed.all
    /\ Cardinality(lastReq.allowed.origins) = 2
    /\ lastReq.origin = <<26, 27>>
    /\ lastResp.code = 204
    /\ lastResp.allowOrigin = <<26, 27>>
    /\ ~lastResp.reachedNext

----------------------------------------------------------------------------
(* C29: every window syncOnce fetches is [from, to] with from = cursor + 1 and   *)
(* to = min(from + batchSize - 1, head), head being the one read at the start of *)
(* the wake-up; a window fetched after a committed one starts right after it     *)
(* and shares no block with it.                                                  *)

\* this step is a turn of syncOnce's loop: a window is computed and fetched
FetchesWindow == pc = "drain" /\ window'.n >= 1

WindowSized ==
    /\ window'.from = lastBlock + 1
    /\ window'.to = Min(window'.from + batchSize - 1, head)

WindowFollows ==
    (window.n >= 1 /\ window.outcome = "committed") =>
        /\ window'.from = window.to + 1
        /\ window'.from <= window'.to

C29_WindowSizing == [][FetchesWindow => (WindowSized /\ WindowFollows)]_vars

\* the same away from the end of the unsigned domain
WindowSizingWithoutWrap ==
    [][(FetchesWindow /\ lastBlock + batchSize <= MaxUint64) =>
          (WindowSized /\ WindowFollows)]_vars

\* two windows committed in a row in one wake-up, the second ending at the head
TwoWindowsInARow ==
    /\ window.n = 2 /\ window.outcome = "committed"
    /\ batchSize = 3 /\ window.from = 4 /\ window.to = 6
    /\ committedCp[T1] = [ok |-> TRUE, block |-> 6]

----------------------------------------------------------------------------
(* C30: in a wake-up in which every fetch and every commit succeeds and the     *)
(* context is not cancelled, each committed window is followed by the next      *)
(* window, under the same head and without a sleep, as long as the cursor is    *)
(* below the head read at the start of the wake-up; the engine goes back to     *)
(* sleep exactly when the cursor has reached that head, and it does reach it.   *)

DrainsWithoutSleep ==
    pc = "drain" =>
        /\ window'.outcome = "committed"
        /\ lastBlock' = window'.to
        /\ IF lastBlock' = head
           THEN pc' = "poll"
           ELSE pc' = "drain" /\ head' = head

C30_BacklogDrain ==
    /\ [][DrainsWithoutSleep]_vars
    /\ (pc = "drain") ~> (pc = "poll" /\ window.outcome = "committed"
                                      /\ lastBlock = window.to)

\* the parts of C30 that hold: no sleep between the windows of a wake-up, and
\* the head is reached when no window's upper end can wrap
NoSleepBeforeHead == [][DrainsWithoutSleep]_vars

DrainEndsWithoutWrap ==
    (pc = "drain" /\ head + batchSize <= MaxUint64 + 1) ~> (pc = "poll")

\* a backlog of three blocks drained window by window (batchSize 1, from the
\* start of the chain to head 3), the engine asleep again
BacklogDrained ==
    /\ pc = "poll"
    /\ batchSize = 1
    /\ resolved = NoCheckpoint
    /\ window = [n |-> 2, from |-> 3, to |-> 3, outcome |-> "committed"]
    /\ lastBlock = 3
    /\ committedCp[T1] = [ok |-> TRUE, block |-> 3]

----------------------------------------------------------------------------
(* The fetch of one window: what the chain-data collaborator delivers, in    *)
(* the order it delivers it, and what fetchEvents makes of it                *)

\* the largest log index a store.Event can hold (math.MaxUint32, scaled down)
MaxUint32 == 2

\* an entry of the iterator: a log of the contract, or a nil event
Log(blockNumber, index) == [nil |-> FALSE, BlockNumber |-> blockNumber, Index |-> index]

NilEvent == [nil |-> TRUE, BlockNumber |-> 0, Index |-> 0]

\* the loop over iter.Next() from entry i on: a nil event is skipped, a log index
\* above 32 bits ends the fetch with an error, every other log is appended with
\* the engine's identity
RECURSIVE collectEvents(_, _, _, _)
collectEvents(t, delivered, i, results) ==
    IF i > Len(delivered) THEN [events |-> results, err |-> "nil"]
    ELSE LET event == delivered[i] IN
         IF event.nil THEN collectEvents(t, delivered, i + 1, results)
         ELSE IF event.Index > MaxUint32
              THEN [events |-> <<>>, err |-> ErrLogIndex.msg]
              ELSE collectEvents(t, delivered, i + 1,
                       Append(results, EventOf(t, event.BlockNumber, event.Index)))

\* the comparison handed to sort.Slice, with the log index left out
lessByBlock(a, b) == a.BlockNumber < b.BlockNumber

\* the comparison handed to sort.Slice
less(a, b) ==
    IF a.BlockNumber = b.BlockNumber
    THEN a.LogIndex < b.LogIndex
    ELSE a.BlockNumber < b.BlockNumber

\* e put into a sorted slice before the first element it is less than
RECURSIVE insertSorted(_, _)
insertSorted(sorted, e) ==
    IF sorted = <<>> THEN <<e>>
    ELSE IF less(e, Head(sorted)) THEN <<e>> \o sorted
         ELSE <<Head(sorted)>> \o insertSorted(Tail(sorted), e)

\* sort.Slice(results, less): the elements of results, rearranged by comparisons
RECURSIVE sortSlice(_)
sortSlice(results) ==
    IF results = <<>> THEN <<>>
    ELSE insertSorted(sortSlice(SubSeq(results, 1, Len(results) - 1)),
                      results[Len(results)])

\* fetchEvents on what the iterator delivers
fetchDelivered(t, delivered) ==
    LET r == collectEvents(t, delivered, 1, <<>>) IN
    IF r.err # "nil" THEN r ELSE [events |-> sortSlice(r.events), err |-> "nil"]

\* the logs of the window [1, 3] of T1's chain: two of one block, one of an
\* earlier block, and what else the iterator may hold
WindowLogs == {Log(2, 1), Log(2, 0), Log(1, 1)}

OtherEntries == {NilEvent, Log(3, MaxUint32 + 1)}

\* the window's logs in every order, any of them left out or delivered twice;
\* and two logs with one of the other entries before, between or after them
Deliveries ==
    UNION {[1..n -> WindowLogs] : n \in 0..3}
    \cup {<<o, Log(2, 1), Log(1, 1)>> : o \in OtherEntries}
    \cup {<<Log(2, 1), o, Log(2, 0)>> : o \in OtherEntries}
    \cup {<<Log(2, 1), Log(2, 0), o>> : o \in OtherEntries}

\* one turn of syncOnce on the window [1, 3], the collaborator delivering the
\* window's logs in some order: fetchEvents, then SaveEvents with what it returned
FetchDelivered ==
    \E delivered \in Deliveries :
        LET r == fetchDelivered(T1, delivered)
            tried(outcome) == [n |-> 1, from |-> 1, to |-> 3, outcome |-> outcome,
                               delivered |-> delivered, passed |-> r.events] IN
        /\ IF r.err # "nil"
           THEN /\ window' = tried(r.err)
                /\ UNCHANGED storeVars
           ELSE /\ CallSaveEvents(T1, r.events, 3, NoFault)
                /\ window' = tried("committed")
        /\ UNCHANGED <<pc, lastBlock, head, cfgStartBlock, batchSize, runErr, resolved,
                       emptyRange, serviceVars>>

FetchNext == FetchDelivered

FetchSpec == StoreInit /\ [][FetchNext]_vars

----------------------------------------------------------------------------
(* C31: the events of one window are sorted before they are committed *)

\* the number of entries of s equal to e
Count(s, e) == Cardinality({i \in DOMAIN s : s[i] = e})

\* the events the iterator delivered: its entries that are not nil, as events of t
DeliveredEvents(t, delivered) ==
    LET logs == {i \in DOMAIN delivered : ~delivered[i].nil} IN
    [i \in logs |-> EventOf(t, delivered[i].BlockNumber, delivered[i].Index)]

\* SaveEvents was called on a fetched window
Fetched == "delivered" \in DOMAIN window /\ window.outcome = "committed"

\* C31: whatever the order in which the collaborator delivers the events of one
\* window, the sequence passed to SaveEvents is sorted ascending by (blockNumber,
\* logIndex) and holds exactly the delivered events: each as often as it was
\* delivered, none dropped, none added
C31_SortedBeforeCommit ==
    Fetched =>
        LET passed == window.passed
            events == DeliveredEvents(T1, window.delivered) IN
        /\ \A i \in 1..Len(passed) - 1 :
              \/ passed[i].BlockNumber < passed[i + 1].BlockNumber
              \/ /\ passed[i].BlockNumber = passed[i + 1].BlockNumber
                 /\ passed[i].LogIndex <= passed[i + 1].LogIndex
        /\ Len(passed) = Cardinality(DOMAIN events)
        /\ \A i \in DOMAIN events :
              Count(passed, events[i]) = Cardinality({j \in DOMAIN events : events[j] = events[i]})
        /\ lastOp.op = "SaveEvents" /\ lastOp.err = "nil"

\* the three logs of the window delivered latest first, a nil event before them,
\* and committed earliest first
C31_Witness ==
    /\ Fetched
    /\ window.delivered = <<Log(2, 1), Log(2, 0), Log(1, 1)>>
    /\ window.passed = <<EventOf(T1, 1, 1), EventOf(T1, 2, 0), EventOf(T1, 2, 1)>>
    /\ Visible(db, T1).rows.events = window.passed

----------------------------------------------------------------------------
(* C32: descending pagination.                                                   *)
(* As claimed: for all skip >= 0, first > 0 gives the elements [skip, skip +     *)
(* first) of the reversed full ascending order, and every first <= 0 gives every *)
(* element from position skip on.                                                *)
(* As the code has it: that holds for first > 0 and for first = 0; a negative    *)
(* first is refused with an error and no events.                                 *)

\* the events committed for a target, newest first
CommittedNewestFirst(t) == Reverse(CommittedInOrder(t))

C32_AsClaimed ==
    \A t \in Targets : \A skip \in 0..MaxPage, first \in -1..MaxPage :
        LET r == ListEvents(db, FALSE, ListOptions(t, first, skip, "desc")) IN
        /\ first > 0 => r.events = Window(CommittedNewestFirst(t), skip, first)
        /\ first <= 0 => r.events = From(CommittedNewestFirst(t), skip)

\* C32, as the code has it: for all skip >= 0 a descending ListEvents with
\* first > 0 returns the elements at positions [skip, skip + first) of the
\* reversed full ascending order (none when skip is at or past its length), with
\* first = 0 every element from position skip on, and with first < 0 an error
C32_DescendingPagination ==
    \A t \in Targets : \A skip \in 0..MaxPage, first \in -1..MaxPage :
        LET r == ListEvents(db, FALSE, ListOptions(t, first, skip, "desc")) IN
        /\ first >= 0 => r.err = "nil"
        /\ first > 0 => r.events = Window(CommittedNewestFirst(t), skip, first)
        /\ first = 0 => r.events = From(CommittedNewestFirst(t), skip)
        /\ skip >= Len(CommittedNewestFirst(t)) => r.events = <<>>
        /\ first < 0 => r.err # "nil" /\ r.events = <<>>

\* three rows of T1: the newest alone, the second newest alone, the two oldest
\* with no limit, nothing from position 3 on
C32_Witness ==
    /\ Cardinality(DOMAIN committedRows[T1]) = 3
    /\ ListEvents(db, FALSE, ListOptions(T1, 1, 0, "desc")).events = <<EventOf(T1, 256, 0)>>
    /\ ListEvents(db, FALSE, ListOptions(T1, 1, 1, "desc")).events = <<EventOf(T1, 2, 0)>>
    /\ ListEvents(db, FALSE, ListOptions(T1, 0, 1, "desc")).events =
           <<EventOf(T1, 2, 0), EventOf(T1, 1, 1)>>
    /\ ListEvents(db, FALSE, ListOptions(T1, 2, 3, "desc")).events = <<>>

----------------------------------------------------------------------------
(* C33: each block is processed at most once per target.  Over every execution  *)
(* of the engine, retryable failures, fatal stops and restarts from the         *)
(* persisted checkpoint included, every committed window is a range of blocks   *)
(* above the checkpoint committed before it, so that no block is in two         *)
(* committed windows, and no event identity (chainID, contract, blockNumber,    *)
(* logIndex) of its batch was committed before.                                 *)

\* this step is a turn of syncOnce's loop that commits its window
CommitsWindow == pc = "drain" /\ window'.outcome = "committed"

\* the identities (blockNumber, logIndex) of the events of the window committed
\* by this step
WrittenIds ==
    LET events == fetchEvents(T1, window'.from, window'.to) IN
    {<<events[i].BlockNumber, events[i].LogIndex>> : i \in DOMAIN events}

WindowAboveCheckpoint ==
    /\ window'.from <= window'.to
    /\ committedCp[T1].ok => window'.from > committedCp[T1].block

NoIdentityRewritten == WrittenIds \cap DOMAIN committedRows[T1] = {}

C33_ProcessedOnce ==
    [][CommitsWindow => (WindowAboveCheckpoint /\ NoIdentityRewritten)]_vars

\* the conclusion alone: no commit writes an event identity a second time
IdentityWrittenOnce == [][CommitsWindow => NoIdentityRewritten]_vars

\* no committed row of T1 is above the cursor
RowsBelowCursor == \A id \in DOMAIN committedRows[T1] : id[1] <= lastBlock

\* the same away from the end of the unsigned domain: a commit whose window's
\* upper end does not wrap, by a Run that read a checkpoint below MaxUint64 and
\* has no committed row above its cursor, writes only blocks and identities
\* that were not committed before, and leaves no committed row above the cursor
ProcessedOnceWithoutWrap ==
    [][(/\ CommitsWindow
        /\ U64(lastBlock + 1) + batchSize - 1 <= MaxUint64
        /\ resolved.block < MaxUint64
        /\ committedCp[T1].ok => committedCp[T1].block <= lastBlock
        /\ RowsBelowCursor) =>
          /\ WindowAboveCheckpoint
          /\ NoIdentityRewritten
          /\ RowsBelowCursor'
      ]_vars

\* a Run restarted from the checkpoint 3 of an earlier Run has committed the
\* next window, the two events of block 2 committed once
RestartedAboveCheckpoint ==
    /\ resolved = [ok |-> TRUE, block |-> 3]
    /\ window.outcome = "committed" /\ window.from = 4 /\ window.to = 6
    /\ Cardinality(DOMAIN committedRows[T1]) = 2
    /\ committedCp[T1] = [ok |-> TRUE, block |-> 6]

----------------------------------------------------------------------------
(* Store.SaveContract step by step: two requests (net/http serves each in its   *)
(* own goroutine, and Store holds no lock) registering T1 with different start  *)
(* blocks                                                                       *)

Savers == {1, 2}

RaceStartBlocks == {10, 99}

\* what the call of goroutine g returned
SaveContractReturns(g, err, fault, wrote) ==
    /\ saving' = [saving EXCEPT ![g].pc = IF err = "nil" THEN "returned" ELSE "failed"]
    /\ lastOp' = [op |-> "SaveContract", target |-> T1, err |-> err, buffered |-> 0,
                  fault |-> fault, startBlock |-> saving[g].startBlock, wrote |-> wrote]

\* handleContracts calls SaveContract: the context and the arguments are checked
SaveContractEnter(g) ==
    /\ saving[g].pc = "idle"
    /\ \E s \in RaceStartBlocks :
          saving' = [saving EXCEPT ![g] = [pc |-> "get", startBlock |-> s]]
    /\ UNCHANGED <<storeVars, engineVars, orchVars, handlers, contracts, lastReq, lastResp>>

\* s.db.Get(key), on the store and not in a transaction: a record that is found
\* ends the call with nil, a key that is not found lets it go on
SaveContractGet(g) ==
    /\ saving[g].pc = "get"
    /\ \E fault \in {"none", "get"} :
          IF fault = "none" /\ Get(db, contractKey(T1.chainID, T1.contract)).found
          THEN SaveContractReturns(g, "nil", fault, FALSE)
          ELSE IF fault = "get"
          THEN SaveContractReturns(g, "check contract", fault, FALSE)
          ELSE /\ saving' = [saving EXCEPT ![g].pc = "write"]
               /\ UNCHANGED lastOp
    /\ UNCHANGED <<db, committedCp, committedRows, registeredAs, engineVars, orchVars,
                   handlers, contracts, lastReq, lastResp>>

\* the write transaction: Set of the record under the key, Commit
SaveContractWrite(g) ==
    /\ saving[g].pc = "write"
    /\ \E fault \in {"none", "set", "commit"} :
          LET record == [ChainID |-> T1.chainID, Contract |-> Hex(T1.contract),
                         StartBlock |-> saving[g].startBlock]
              written == TxCommit(db, TxSet(WriteTx, contractKey(T1.chainID, T1.contract),
                                            MarshalContract(record))) IN
          IF fault = "set"
          THEN SaveContractReturns(g, "store contract", fault, FALSE)
               /\ UNCHANGED <<db, registeredAs>>
          ELSE IF fault = "commit"
          THEN SaveContractReturns(g, "commit contract", fault, FALSE)
               /\ UNCHANGED <<db, registeredAs>>
          ELSE /\ SaveContractReturns(g, "nil", fault, written # db)
               /\ db' = written
               /\ registeredAs' =
                     IF registeredAs[T1].ok THEN registeredAs
                     ELSE [registeredAs EXCEPT
                              ![T1] = [ok |-> TRUE, startBlock |-> saving[g].startBlock]]
    /\ UNCHANGED <<committedCp, committedRows, engineVars, orchVars, handlers, contracts,
                   lastReq, lastResp>>

\* the request is answered and its goroutine ends
SaveContractLeave(g) ==
    /\ saving[g].pc \in {"returned", "failed"}
    /\ saving' = [saving EXCEPT ![g] = [pc |-> "idle", startBlock |-> 0]]
    /\ UNCHANGED <<storeVars, engineVars, orchVars, handlers, contracts, lastReq, lastResp>>

RaceNext ==
    \E g \in Savers :
        \/ SaveContractEnter(g)
        \/ SaveContractGet(g)
        \/ SaveContractWrite(g)
        \/ SaveContractLeave(g)

RaceSpec == StoreInit /\ [][RaceNext]_vars

----------------------------------------------------------------------------
(* C34: under every interleaving of concurrent SaveContract calls for one       *)
(* target with different start blocks, once one call has returned success the  *)
(* persisted startBlock is not changed by any step of another call.             *)

C34_RegistrationAtomic ==
    [][registeredAs[T1].ok =>
          /\ IsRegistered(db', T1)
          /\ StoredStartBlock(db', T1) = StoredStartBlock(db, T1)
      ]_vars

\* a call that finds the record of an earlier call returns nil and writes nothing
LaterCallKeepsRecord ==
    /\ registeredAs[T1] = [ok |-> TRUE, startBlock |-> 10]
    /\ StoredStartBlock(db, T1) = 10
    /\ saving[1].pc = "idle"
    /\ saving[2] = [pc |-> "returned", startBlock |-> 99]
    /\ lastOp.op = "SaveContract" /\ lastOp.err = "nil" /\ ~lastOp.wrote

----------------------------------------------------------------------------
(* C35: a target whose chain has no usable endpoint is not admitted, and its    *)
(* admission is tried again.  An ensureRegistered call that ends for lack of an *)
(* endpoint forwards its error, leaves the registry as it is and launches no    *)
(* engine; every pass of the discovery loop that lists the records (the root    *)
(* context not cancelled) takes the target's record up again while the target   *)
(* is not in the registry; and a pass that finds an endpoint for the chain goes *)
(* on to insert the target and leaves it registered with an engine launched.    *)

\* caller c takes a step
Steps(c) == callers'[c] # callers[c]

\* the target of the record caller c is at
AtTarget(c) ==
    LET cfg == ContractInfoOf(Head(callers[c].todo)) IN
    [chainID |-> cfg.ChainID, contract |-> cfg.Address]

NotAdmittedWithoutEndpoint(c) ==
    (/\ callers[c].pc = "build" /\ Steps(c)
     /\ AtTarget(c).chainID \notin endpoints /\ endpoints' = endpoints) =>
        /\ callers'[c].pc # "insert"
        /\ errCh' = sendErr(errCh, "no RPC endpoints").ch
        /\ indexers' = indexers
        /\ engines' = engines

TriedAgainOnTick(c) ==
    \A t \in ServiceTargets :
        (/\ callers[c].pc = "wait" /\ Steps(c) /\ ~ctxDone
         /\ IsRegistered(db, t)) =>
            /\ callers'[c].pc = "check"
            /\ \E k \in DOMAIN callers'[c].todo :
                  ContractInfoOf(callers'[c].todo[k]).Address = t.contract

AdmittedWithEndpoint(c) ==
    /\ (/\ callers[c].pc = "check" /\ Steps(c)
        /\ indexerKey(AtTarget(c).chainID, AtTarget(c).contract) \notin indexers) =>
            callers'[c].pc = "build"
    /\ (callers[c].pc = "build" /\ Steps(c) /\ AtTarget(c).chainID \in endpoints) =>
            /\ callers'[c].pc = "insert"
            /\ errCh' = errCh
    /\ (callers[c].pc = "insert" /\ Steps(c)) =>
            /\ indexerKey(AtTarget(c).chainID, AtTarget(c).contract) \in indexers'
            /\ Len(engines'[AtTarget(c)]) = 1

C35_AdmissionRetried ==
    [][\A c \in Callers :
          /\ NotAdmittedWithoutEndpoint(c)
          /\ TriedAgainOnTick(c)
          /\ AdmittedWithEndpoint(c)
      ]_vars

\* an admission of T1 failed for lack of an endpoint and its error is in the
\* channel; the chain has an endpoint now and a later pass has launched the
\* target's engine
C35_Witness ==
    /\ \E k \in DOMAIN errCh : errCh[k] = "no RPC endpoints"
    /\ T1.chainID \in endpoints
    /\ indexers = {indexerKey(T1.chainID, T1.contract)}
    /\ Len(engines[T1]) = 1 /\ engines[T1][1].status = "running"
    /\ ~ctxDone /\ mainPc = "serving"

----------------------------------------------------------------------------
(* C36: in every reachable state every event row stored for a target has a      *)
(* block number at or below the target's stored checkpoint, and the checkpoint  *)
(* row exists whenever an event row does (the collaborator delivering only      *)
(* events inside the window it was asked for).                                   *)

RowsBelowCheckpoint(d, t) ==
    LET seen == Visible(d, t) IN
    /\ seen.rows.events # <<>> => seen.checkpoint.ok
    /\ \A i \in DOMAIN seen.rows.events :
          seen.rows.events[i].BlockNumber <= seen.checkpoint.block

C36_EventsBelowCheckpoint == \A t \in Targets : RowsBelowCheckpoint(db, t)

\* the same away from the end of the unsigned domain: a step of a Run that read
\* a checkpoint below MaxUint64, the upper end of its window not wrapping, keeps
\* the rows at or below the checkpoint
RowsStayBelowWithoutWrap ==
    [][(/\ RowsBelowCheckpoint(db, T1)
        /\ U64(lastBlock + 1) + batchSize - 1 <= MaxUint64
        /\ resolved.block < MaxUint64) =>
          RowsBelowCheckpoint(db', T1)
      ]_vars

\* the two events of block 2 stored under the checkpoint 3 of their window
RowsUnderTheirCheckpoint ==
    /\ Len(Visible(db, T1).rows.events) = 2
    /\ Visible(db, T1).checkpoint = [ok |-> TRUE, block |-> 3]
    /\ window = [n |-> 1, from |-> 1, to |-> 3, outcome |-> "committed"]

----------------------------------------------------------------------------
(* C37: targets are independent at process level.  While the operator sends no  *)
(* signal, an engine that is running stops only on a fatal error of its own     *)
(* window: neither the fatal end of another target's engine nor the failed      *)
(* admission of another target cancels the root context or ends its Run.        *)

\* engine i of target t ends in this step
EngineEnds(t, i) == engines[t][i].status = "running" /\ engines'[t][i].status # "running"

C37_TargetIndependence ==
    [][/\ ~ctxDone'
       /\ \A t \in IndependentTargets : \A i \in DOMAIN engines[t] :
             EngineEnds(t, i) =>
                /\ engines'[t][i].err \in {ErrLogIndex.msg, ErrStoreEvents.msg}
                /\ lastOp'.fault # "ctx"
      ]_vars

\* what the orchestrator itself keeps: a step in which a target's engine ends or
\* a target's admission fails changes no other target's engine, and as long as
\* main has not returned no engine ends but on a fatal error of its own
OrchestratorKeepsOthers ==
    [][/\ \A t \in IndependentTargets : \A i \in DOMAIN engines[t] :
             (EngineEnds(t, i) /\ ~ctxDone) =>
                /\ engines'[t][i].err \in {ErrLogIndex.msg, ErrStoreEvents.msg}
                /\ \A u \in IndependentTargets \ {t} : engines'[u] = engines[u]
       /\ (callers[1].pc = "build" /\ Steps(1) /\ callers'[1].pc # "insert") =>
             (engines' = engines /\ ctxDone' = ctxDone)
      ]_vars

\* T3 was not admitted for lack of an endpoint, main has taken the error and
\* returned, and T1's engine has ended on the cancelled context with blocks left
OtherTargetStopped ==
    /\ engines[T3] = <<>>
    /\ T3.chainID \notin endpoints
    /\ mainPc = "exited"
    /\ Len(engines[T1]) = 1
    /\ engines[T1][1].err = "context canceled"
    /\ committedCp[T1] = [ok |-> TRUE, block |-> 1]

----------------------------------------------------------------------------
(* C38: for every batchSize >= 1 of the unsigned domain and every cursor below  *)
(* the head, the window syncOnce computes satisfies from <= to <= head, the     *)
(* wrap-around of the unsigned arithmetic taken into account, so that every     *)
(* commit moves the cursor up.                                                  *)

WindowWithinHead ==
    /\ lastBlock < head /\ batchSize >= 1
    /\ window'.from <= window'.to
    /\ window'.to <= head

CursorMovesUp == window'.outcome = "committed" => lastBlock' > lastBlock

C38_WindowWithinHead == [][FetchesWindow => (WindowWithinHead /\ CursorMovesUp)]_vars

\* the same for the windows whose upper end does not pass MaxUint64
WindowWithinHeadWithoutWrap ==
    [][(FetchesWindow /\ lastBlock + batchSize <= MaxUint64) =>
          (WindowWithinHead /\ CursorMovesUp)]_vars

\* the largest batch size, which does not wrap from cursor 0: the window is cut
\* at the head 6 and its commit moves the cursor there
LargestBatchCutAtHead ==
    /\ batchSize = MaxUint64 /\ resolved = NoCheckpoint /\ cfgStartBlock = 0
    /\ window = [n |-> 1, from |-> 1, to |-> 6, outcome |-> "committed"]
    /\ lastBlock = 6

----------------------------------------------------------------------------
(* The engine step by step: every place where Run, syncOnce and SaveEvents   *)
(* read the context is a step of its own, so that the root cancellation can  *)
(* arrive between any two of them. pc has three more positions: "fetching"   *)
(* (syncOnce's check passed, the window is computed), "saving" (the window   *)
(* is fetched, SaveEvents is about to be called) and "committing"            *)
(* (SaveEvents has passed its last check of the context).                    *)

\* the window of the turn in progress, with how far the turn got
turn(outcome) == [window EXCEPT !.outcome = outcome]

\* Run is launched under the root context
StepStart ==
    /\ RunStartWith(StartBlocks, BatchSizes)
    /\ (runErr' = "ctx") <=> ctxDone

\* Run's loop passes its check and syncOnce's head query succeeds
StepPollHead == ~ctxDone /\ PollHead

\* Run's checks of the context: at the top of its loop and where it waits
RunChecks ==
    /\ pc = "poll" /\ ctxDone
    /\ RunReturns("context canceled", window)
    /\ UNCHANGED <<storeVars, cfgStartBlock, batchSize, emptyRange, serviceVars>>

\* syncOnce's loop without its check of the context
LoopCheckUnguarded ==
    /\ pc = "drain"
    /\ LET w == SyncWindow(lastBlock, batchSize, head) IN
       /\ pc' = "fetching"
       /\ window' = [n |-> Min(window.n + 1, 2), from |-> w.from, to |-> w.to,
                     outcome |-> "started", late |-> FALSE]
       /\ UNCHANGED <<lastBlock, head, runErr, resolved>>
    /\ UNCHANGED <<storeVars, cfgStartBlock, batchSize, emptyRange, serviceVars>>

\* the top of syncOnce's loop: the check of the context, then the window
LoopCheck ==
    /\ pc = "drain"
    /\ LET w == SyncWindow(lastBlock, batchSize, head) IN
       IF ctxDone
       THEN RunReturns("context canceled", window)
       ELSE /\ pc' = "fetching"
            /\ window' = [n |-> Min(window.n + 1, 2), from |-> w.from, to |-> w.to,
                          outcome |-> "started", late |-> FALSE]
            /\ UNCHANGED <<lastBlock, head, runErr, resolved>>
    /\ UNCHANGED <<storeVars, cfgStartBlock, batchSize, emptyRange, serviceVars>>

\* fetchEvents for the window: it fails, or its events are ready
FetchStep ==
    /\ pc = "fetching"
    /\ \/ \E err \in {ErrFilterLogs, ErrLogIndex, ErrMissingTopic} :
             SyncFails(err, turn(err.msg))
       \/ /\ pc' = "saving"
          /\ window' = turn("fetched")
          /\ UNCHANGED <<lastBlock, head, runErr, resolved>>
    /\ UNCHANGED <<storeVars, cfgStartBlock, batchSize, emptyRange, serviceVars>>

\* SaveEvents' checks of the context, at its entry and before each row
SaveChecks ==
    /\ pc = "saving"
    /\ IF ctxDone
       THEN /\ CallSaveEvents(T1, fetchEvents(T1, window.from, window.to), window.to,
                              [kind |-> "ctx", at |-> 0])
            /\ SyncFails(ErrStoreEvents, turn(ErrStoreEvents.msg))
       ELSE /\ pc' = "committing"
            /\ window' = turn("checked")
            /\ UNCHANGED <<storeVars, lastBlock, head, runErr, resolved>>
    /\ UNCHANGED <<cfgStartBlock, batchSize, emptyRange, serviceVars>>

\* the rest of SaveEvents, which reads the context no more, and the end of the
\* turn; late: the root context was cancelled when the commit was made
SaveWrites ==
    /\ pc = "committing"
    /\ \E fault \in {NoFault, [kind |-> "commit", at |-> 0]},
          events \in {fetchEvents(T1, window.from, window.to)} :
          /\ CallSaveEvents(T1, events, window.to, fault)
          /\ IF lastOp'.err # "nil"
             THEN SyncFails(ErrStoreEvents, turn(ErrStoreEvents.msg))
             ELSE /\ lastBlock' = window.to
                  /\ pc' = IF window.to < head THEN "drain" ELSE "poll"
                  /\ head' = IF window.to < head THEN head ELSE 0
                  /\ window' = [turn("committed") EXCEPT !.late = ctxDone]
                  /\ UNCHANGED <<runErr, resolved>>
    /\ UNCHANGED <<cfgStartBlock, batchSize, emptyRange, serviceVars>>

StepNext ==
    \/ StepStart \/ StepPollHead \/ PollHeadFails \/ RunChecks \/ LoopCheck
    \/ FetchStep \/ SaveChecks \/ SaveWrites \/ Signal

StepSpec == StoreInit /\ [][StepNext]_vars

----------------------------------------------------------------------------
(* C39: after the root cancellation signal is set, an engine completes at    *)
(* most one further commit (one that had already passed its cancellation     *)
(* check) and starts no fetch window after that commit; an engine launched   *)
(* after cancellation commits nothing.                                       *)

\* the step completes a commit
CommitCompletes == window.outcome # "committed" /\ window'.outcome = "committed"

\* the step starts a fetch window
WindowStarts == window'.outcome = "started" /\ window' # window

\* the engine has completed a commit after the cancellation
LateCommitted == "late" \in DOMAIN window /\ window.outcome = "committed" /\ window.late

C39_AtMostOneLateCommit ==
    [][ctxDone =>
          /\ CommitCompletes => (pc = "committing" /\ ~LateCommitted)
          /\ pc' = "committing" => pc = "committing"
          /\ ~WindowStarts
          /\ LateCommitted => (pc' \notin {"fetching", "saving", "committing"})
          /\ pc = "stopped" => (pc' = "stopped" /\ UNCHANGED storeVars)
      ]_vars

\* the signal arrived while SaveEvents was past its checks on the window [1, 1]:
\* that commit was completed, and Run returned with blocks left below the head
C39_Witness ==
    /\ ctxDone
    /\ window = [n |-> 1, from |-> 1, to |-> 1, outcome |-> "committed", late |-> TRUE]
    /\ committedCp[T1] = [ok |-> TRUE, block |-> 1]
    /\ pc = "stopped" /\ runErr = "context canceled"

\* an engine launched after the cancellation has returned without a commit
LaunchedAfterCancellation ==
    /\ ctxDone /\ pc = "stopped" /\ runErr = "ctx"
    /\ committedCp[T1] = NoCheckpoint

----------------------------------------------------------------------------
(* The engine under a chain head that does not move: head keeps the value    *)
(* the first query read, every later query that succeeds reads it again;     *)
(* head queries and log fetches may fail, commits succeed and the context    *)
(* is not cancelled                                                          *)

\* the heads above the cursor of a starting engine
CatchUpHeads == Heads \ {0}

\* New and the start of Run, the checkpoint being read
CatchUpStart == DrainStart /\ pc' = "poll"

\* syncOnce up to its loop, the head query succeeding
HeadQuery ==
    /\ pc = "poll"
    /\ \E h \in (IF head = 0 THEN CatchUpHeads ELSE {head}) :
          /\ head' = h
          /\ pc' = IF lastBlock >= h THEN "poll" ELSE "drain"
    /\ UNCHANGED <<storeVars, lastBlock, cfgStartBlock, batchSize, runErr, resolved, window,
                   emptyRange, serviceVars>>

\* the head query fails: Run logs the error and waits for the next wake-up
HeadQueryFails ==
    /\ pc = "poll"
    /\ window' = [window EXCEPT !.outcome = ErrFetchHead.msg]
    /\ UNCHANGED <<storeVars, pc, lastBlock, head, cfgStartBlock, batchSize, runErr, resolved,
                   emptyRange, serviceVars>>

\* the fetch of the window fails: syncOnce returns, Run waits for the next wake-up
FetchFails ==
    /\ pc = "drain"
    /\ LET w == SyncWindow(lastBlock, batchSize, head) IN
       window' = [n |-> Min(window.n + 1, 2), from |-> w.from, to |-> w.to,
                  outcome |-> ErrFilterLogs.msg]
    /\ pc' = "poll"
    /\ UNCHANGED <<storeVars, lastBlock, head, cfgStartBlock, batchSize, runErr, resolved,
                   emptyRange, serviceVars>>

\* one turn of syncOnce's loop that fetches and commits its window
CatchUpTurn ==
    /\ pc = "drain"
    /\ \E w \in {SyncWindow(lastBlock, batchSize, head)} :
       \E events \in {fetchEvents(T1, w.from, w.to)} :
          /\ CallSaveEvents(T1, events, w.to, NoFault)
          /\ lastBlock' = w.to
          /\ pc' = IF w.to < head THEN "drain" ELSE "poll"
          /\ window' = [n |-> Min(window.n + 1, 2), from |-> w.from, to |-> w.to,
                        outcome |-> "committed"]
    /\ UNCHANGED <<head, cfgStartBlock, batchSize, runErr, resolved, emptyRange, serviceVars>>

CatchUpNext == CatchUpStart \/ HeadQuery \/ HeadQueryFails \/ FetchFails \/ CatchUpTurn

\* Run wakes up at every poll interval, and the queries and fetches that can
\* succeed infinitely often do succeed: they fail only finitely often
CatchUpFairness == WF_vars(HeadQuery) /\ SF_vars(CatchUpTurn)

CatchUpSpec == StoreInit /\ [][CatchUpNext]_vars /\ CatchUpFairness

----------------------------------------------------------------------------
(* C40: catch-up liveness. If the chain head stays at a value H above the    *)
(* engine's cursor, head queries and log fetches fail only finitely often,   *)
(* commits succeed, events decode and no cancellation occurs, then the       *)
(* target's persisted checkpoint eventually equals H and stays there while   *)
(* the head does not move.                                                   *)

CaughtUp(H) == committedCp[T1] = [ok |-> TRUE, block |-> H]

C40_CatchUp ==
    \A H \in CatchUpHeads : (head = H /\ lastBlock < H) ~> [](CaughtUp(H))

\* the same for the engines none of whose windows can pass MaxUint64
CatchUpWithoutWrap ==
    \A H \in CatchUpHeads :
        (head = H /\ lastBlock < H /\ H + batchSize <= MaxUint64 + 1) ~> [](CaughtUp(H))

\* a head 6 reached in windows of two blocks from the start of the chain, the
\* engine asleep with the checkpoint at the head
CaughtUpAfterFailure ==
    /\ head = 6 /\ batchSize = 2 /\ resolved = NoCheckpoint
    /\ lastBlock = 6 /\ pc = "poll"
    /\ window = [n |-> 2, from |-> 5, to |-> 6, outcome |-> "committed"]
    /\ CaughtUp(6)

====
